---- MODULE Spec2Model ----
(***************************************************************************)
(* Bonus ledger / reservation engine of aws-lambda-bonuses.                *)
(*                                                                         *)
(* The record store (KeyCRM) holds, for one buyer, the custom fields       *)
(*   CT_1023 active bonuses, CT_1034 reserved bonuses, CT_1024 expiry      *)
(*   date, CT_1033 bonus history (text, newest entry first),               *)
(* and for every order its discount_amount.                                *)
(*                                                                         *)
(* Python floats are modelled as fixed-point numbers in tenths (the value  *)
(* x is the integer 10x): request amounts are whole numbers, and the only  *)
(* factors the code applies are 0.1 and 0.5, so tenths are exact.          *)
(* Balances are written through int(), which truncates towards zero.       *)
(*                                                                         *)
(* A history line is modelled by the fields the code later reads back from *)
(* its text: the operation emoji (kind), the "#<order>" token, the         *)
(* "Лід #<lead>" token, the order total, the operation words and their    *)
(* numbers, and the "old→new" balance pair; the number of characters of   *)
(* the line follows from these fields.  The text of the history field is   *)
(* a sequence of physical lines (what split('\n') yields); the variable    *)
(* history holds its non-empty lines, which is what every reader of the    *)
(* field works on.                                                         *)
(***************************************************************************)
EXTENDS Integers, Sequences, FiniteSets, TLC

VARIABLES
    active,     \* CT_1023: active bonus balance stored for the buyer
    reserved,   \* CT_1034: reserved bonus balance stored for the buyer
    expiry,     \* CT_1024: expiry date (day number), NoDate when the field is empty
    history,    \* CT_1033: sequence of history lines, newest first
    discount,   \* discount_amount of every order in the CRM, in tenths
    now,        \* datetime.utcnow() in half days: 2d is 00:00 of day d, 2d+1 its noon
    last,       \* the last request handled atomically: request and response
    ops,        \* number of steps taken so far (requests and clock ticks)
    wk,         \* the stepwise workers (used by SpecConc only)
    buyer,      \* TRUE when the CRM has a buyer record for the customer
    available_codes,  \* S3 promo-codes/available_codes.json: amount -> list of codes
    used_codes_count, \* S3 promo-codes/used_codes_count.json: amount -> number
    panel,      \* the shop's admin panel: amount -> the codes it lists as active
    getters,    \* the invocations of the get-promo-code lambda
    replenisher, \* the invocation of the replenish lambda
    handed,     \* the codes returned with status 200, in order
    response    \* the last response of the get-promo-code lambda

promo_store == <<available_codes, used_codes_count, panel, getters, replenisher, handed, response>>
vars == <<active, reserved, expiry, history, discount, now, last, ops, wk, buyer, promo_store>>
store == <<active, reserved, expiry, history, discount>>

\* the promo-code lambdas are not deployed: nothing in S3, nothing running
PromoUnused ==
    /\ available_codes = <<>>
    /\ used_codes_count = <<>>
    /\ panel = <<>>
    /\ getters = <<>>
    /\ replenisher = <<>>
    /\ handed = <<>>
    /\ response = <<>>

----------------------------------------------------------------------------
(* Bounds of the exploration *)

MaxOps == 4

(* Program constants *)

BONUS_PERCENTAGE_PCT == 10
MAX_HISTORY_RECORDS == 50
MAX_HISTORY_LENGTH == 4000
LENGTH_CUT_RECORDS == 40
BONUS_EXPIRY_DAYS == 90

(* Input domains *)

OrderIds == {1, 12}
NoLead == 0
NoDate == -1

\* products_total of the orders kept by the CRM
ProductsTotal(o) == IF o = 1 THEN 100 ELSE 25

\* the lead through which a manager reserves bonuses for an order
LeadOf(o) == IF o = 1 THEN 7 ELSE 8

\* payload values of the webhooks: discount_amount and promocode of an
\* order.create event, discount_amount of an order-complete event,
\* used_bonus_amount of an order-cancel request, LD_1035 of a lead
ReservePayloads == {<<0, FALSE>>, <<20, TRUE>>, <<60, TRUE>>}
CompleteDiscounts == {0, 20}
CancelAmounts == {0, 20}
LeadAmounts == {30, 60}

\* values the handlers accept although no order has them
NegativeTotals == {-100}
NegativeAmounts == {-30}

----------------------------------------------------------------------------
(* Arithmetic helpers *)

Min(a, b) == IF a <= b THEN a ELSE b
Max(a, b) == IF a >= b THEN a ELSE b
Abs(a) == IF a >= 0 THEN a ELSE -a

\* float(n) for a whole number n, in tenths
F(n) == 10 * n

\* int(x) for a float x in tenths: truncation towards zero
ToInt(x) == IF x >= 0 THEN x \div 10 ELSE -((-x) \div 10)

\* x * 0.5 for a float x in tenths that is a whole number
Half(x) == x \div 2

\* x * BONUS_PERCENTAGE for a float x in tenths that is a whole number
BonusOf(x) == (x * BONUS_PERCENTAGE_PCT) \div 100

----------------------------------------------------------------------------
(* History lines and the text searches the code runs on them *)

ReserveKinds == {"reserved", "manual_reserve"}

\* the decimal digits of a are a prefix of the decimal digits of b
RECURSIVE IsPrefixOf(_, _)
IsPrefixOf(a, b) == a = b \/ (b >= 10 /\ IsPrefixOf(a, b \div 10))

\* f"#{order_id}" in line: the line holds "#<order>" and, for a manual
\* reserve, "Лід #<lead>"; a substring test matches either token by prefix
HasToken(order_id, line) ==
    \/ IsPrefixOf(order_id, line.order)
    \/ (line.lead # NoLead /\ IsPrefixOf(order_id, line.lead))

\* ('🔒' in line or '🔐' in line) and 'резерв' in line
IsReserveLine(line) == line.kind \in ReserveKinds

\* 'ручний резерв' in line
IsManualLine(line) == line.kind = "manual_reserve"

RECURSIVE SumReserves(_, _, _)
SumReserves(h, order_id, i) ==
    IF i > Len(h) THEN 0
    ELSE (IF HasToken(order_id, h[i]) /\ IsReserveLine(h[i]) THEN h[i].amt ELSE 0)
         + SumReserves(h, order_id, i + 1)

\* find_reserved_amount_for_order: found = FALSE stands for None
find_reserved_amount_for_order(h, order_id) ==
    LET found_any == \E i \in 1..Len(h) : HasToken(order_id, h[i]) /\ IsReserveLine(h[i])
    IN  [found |-> found_any,
         total |-> IF found_any THEN F(SumReserves(h, order_id, 1)) ELSE 0]

has_manual_reserve_for_order(h, order_id) ==
    \E i \in 1..Len(h) : HasToken(order_id, h[i]) /\ IsManualLine(h[i])

\* the line log_transaction formats (lines 524-564): the operation words
\* are chosen by operation_type and by the signs of the two amounts
HistoryLine(order_id, bonus_amount, used_bonus_amount, old_balance, new_balance, operation_type, lead_id, order_total) ==
    LET shown ==
            IF operation_type \in ReserveKinds THEN "reserve"
            ELSE IF operation_type = "cancelled" /\ used_bonus_amount < 0 THEN "returned"
            ELSE IF used_bonus_amount > 0 THEN "used"
            ELSE "none"
    IN  [kind   |-> operation_type,
         order  |-> order_id,
         lead   |-> lead_id,
         verb   |-> shown,
         amt    |-> IF shown = "none" THEN 0 ELSE ToInt(Abs(used_bonus_amount)),
         acc    |-> IF bonus_amount > 0 /\ operation_type = "completed"
                    THEN ToInt(bonus_amount) ELSE 0,
         credit |-> bonus_amount > 0 /\ operation_type = "completed",
         total  |-> order_total,
         before |-> old_balance,
         after  |-> new_balance]

\* the duplicate test of log_transaction (lines 568-588), made on the text
\* of the whole history for an automatic reserve
IsDuplicateReserve(h, order_id, operation_type) ==
    IF operation_type = "manual_reserve"
    THEN has_manual_reserve_for_order(h, order_id)
    ELSE IF operation_type = "reserved"
    THEN /\ \E i \in 1..Len(h) : HasToken(order_id, h[i])
         /\ \E i \in 1..Len(h) : IsReserveLine(h[i])
         /\ ~ \E i \in 1..Len(h) : IsManualLine(h[i])
    ELSE FALSE

\* the empty physical line between two entries, and the line "..."
Blank == [kind |-> "blank", order |-> 0, lead |-> NoLead]
Marker == [kind |-> "marker", order |-> 0, lead |-> NoLead]

\* len(str(n)) for an integer n
RECURSIVE Chars(_)
Chars(n) == IF n < 0 THEN 1 + Chars(-n) ELSE IF n < 10 THEN 1 ELSE 1 + Chars(n \div 10)

\* len(line) of the line log_transaction formats (lines 524-564):
\* "{emoji} {dd.mm.yy HH:MM} | #{order} (Лід #{lead}) | {total}₴ |
\*  {operations} | {old}→{new} | до {dd.mm.yy}"
OperationLength(line) ==
    LET moved == IF line.verb = "reserve"
                 THEN (IF line.kind = "manual_reserve" THEN 14 ELSE 7) + Chars(line.amt)
                 ELSE IF line.verb = "returned" THEN 10 + Chars(line.amt)
                 ELSE IF line.verb = "used" THEN 12 + Chars(line.amt)
                 ELSE 0
        credited == IF line.credit THEN 11 + Chars(line.acc) ELSE 0
    IN  IF moved > 0 /\ credited > 0 THEN moved + 2 + credited
        ELSE IF moved + credited > 0 THEN moved + credited
        ELSE 8

\* len(line) of the line the accrual lambda formats (lines 673-690):
\* "🎁 {dd.mm} | #{order} | {total}₴ | +{added} | -{used} | {old}→{new} | до {dd.mm.yy}"
LegacyLength(line) ==
    7 + 3 + 1 + (IF line.order = 0 THEN 18 ELSE Chars(line.order))
      + 3 + Chars(line.total) + 1 + 3 + 1 + Chars(line.acc) + 3 + 1 + Chars(line.amt)
      + 3 + Chars(line.before) + 1 + Chars(line.after) + 3 + 11

\* len(line) of a physical line of the history text
LineLength(line) ==
    IF line.kind = "blank" THEN 0
    ELSE IF line.kind = "marker" THEN 3
    ELSE IF line.kind = "bonus" THEN LegacyLength(line)
    ELSE 16 + 3 + 1 + Chars(line.order)
            + (IF line.lead # NoLead THEN 8 + Chars(line.lead) ELSE 0)
            + 3 + Chars(line.total) + 1 + 3 + OperationLength(line)
            + 3 + Chars(line.before) + 1 + Chars(line.after) + 3 + 11

\* len(text): the characters of the physical lines and the '\n' between them
RECURSIVE SumLengths(_, _, _)
SumLengths(text, from, to) ==
    IF from > to THEN 0
    ELSE IF from = to THEN LineLength(text[from])
    ELSE LET middle == (from + to) \div 2
         IN  SumLengths(text, from, middle) + SumLengths(text, middle + 1, to)

TextLength(text) == IF text = <<>> THEN 0 ELSE SumLengths(text, 1, Len(text)) + Len(text) - 1

\* '\n\n'.join(lines): an empty physical line between two entries
JoinParagraphs(lines) ==
    IF lines = <<>> THEN <<>>
    ELSE [i \in 1..(2 * Len(lines) - 1) |-> IF i % 2 = 1 THEN lines[(i + 1) \div 2] ELSE Blank]

\* [line.strip() for line in text.split('\n') if line.strip()]
IsEntry(line) == line.kind # "blank"
SplitLines(text) == SelectSeq(text, IsEntry)

\* lines[:n]
Take(lines, n) == SubSeq(lines, 1, Min(n, Len(lines)))

\* the text log_transaction makes of a list of entries (lines 596-606): at
\* most MAX_HISTORY_RECORDS entries joined by '\n\n'; a text longer than
\* MAX_HISTORY_LENGTH is replaced by its first 40 entries and '\n\n...'
new_history(entries) ==
    LET history_lines == Take(entries, MAX_HISTORY_RECORDS)
    IN  IF TextLength(JoinParagraphs(history_lines)) > MAX_HISTORY_LENGTH
        THEN JoinParagraphs(Take(history_lines, LENGTH_CUT_RECORDS)) \o <<Blank, Marker>>
        ELSE JoinParagraphs(history_lines)

\* the lines of the history once the text with the new line first (line
\* 593) is stored
InsertLine(h, line) == SplitLines(new_history(<<line>> \o h))

\* log_transaction on the history h it has just read
log_transaction(h, order_id, bonus_amount, used_bonus_amount, old_balance, new_balance, operation_type, lead_id, order_total) ==
    IF IsDuplicateReserve(h, order_id, operation_type)
    THEN [history_updated |-> FALSE, history |-> h]
    ELSE [history_updated |-> TRUE,
          history |-> InsertLine(h, HistoryLine(order_id, bonus_amount,
                          used_bonus_amount, old_balance, new_balance,
                          operation_type, lead_id, order_total))]

----------------------------------------------------------------------------
(* What each handler computes from the account it has read.  A plan says   *)
(* the response code, whether the balances are written, the balances, and  *)
(* the arguments of log_transaction.                                       *)

NoWrite(status, why) ==
    [code |-> status, write |-> FALSE, result |-> why,
     new_bonus |-> 0, new_reserved |-> 0, bonus_amount |-> 0, used |-> 0,
     kind |-> "none", new_discount |-> 0, corrected |-> FALSE]

Write(why, nb, nr, ba, u, k, nd, corr) ==
    [code |-> 200, write |-> TRUE, result |-> why,
     new_bonus |-> nb, new_reserved |-> nr, bonus_amount |-> ba, used |-> u,
     kind |-> k, new_discount |-> nd, corrected |-> corr]

\* a reservation that would write its balances even when it reserves nothing
reservation_plan_writing_nothing(current_bonus, current_reserved, d, promo) ==
    LET discount_amount == F(d)
        bonus_to_reserve == Min(discount_amount, F(current_bonus))
    IN  IF ~promo \/ discount_amount = 0 THEN NoWrite(200, "no_bonuses")
        ELSE Write("order_reserved",
                   ToInt(F(current_bonus) - bonus_to_reserve),
                   ToInt(F(current_reserved) + bonus_to_reserve),
                   0, bonus_to_reserve, "reserved", 0, FALSE)

\* handle_order_reservation, lines 310-382
reservation_plan(current_bonus, current_reserved, d, promo) ==
    LET discount_amount == F(d)
        bonus_to_reserve == Min(discount_amount, F(current_bonus))
    IN  IF ~promo \/ discount_amount = 0 THEN NoWrite(200, "no_bonuses")
        ELSE IF bonus_to_reserve <= 0 THEN NoWrite(200, "nothing_to_reserve")
        ELSE Write("order_reserved",
                   ToInt(F(current_bonus) - bonus_to_reserve),
                   ToInt(F(current_reserved) + bonus_to_reserve),
                   0, bonus_to_reserve, "reserved", 0, FALSE)

\* a completion that would release the whole amount from a smaller reserve
completion_plan_unclamped(h, current_bonus, current_reserved, order_id, order_total, d) ==
    LET bonus_amount == BonusOf(F(order_total))
        found == find_reserved_amount_for_order(h, order_id)
        used_bonus_amount == IF found.found THEN found.total ELSE F(d)
    IN  Write("order_completed", ToInt(F(current_bonus) + bonus_amount),
              ToInt(F(current_reserved) - used_bonus_amount),
              bonus_amount, used_bonus_amount, "completed", 0, FALSE)

\* handle_order_completion and handle_order_completion_logic, lines 60-157
completion_plan(h, current_bonus, current_reserved, order_id, order_total, d) ==
    LET bonus_amount == BonusOf(F(order_total))
        found == find_reserved_amount_for_order(h, order_id)
        used_bonus_amount == IF found.found THEN found.total ELSE F(d)
        new_reserved == Max(0, F(current_reserved) - used_bonus_amount)
        new_bonus == F(current_bonus) + bonus_amount
    IN  Write("order_completed", ToInt(new_bonus), ToInt(new_reserved),
              bonus_amount, used_bonus_amount, "completed", 0, FALSE)

\* handle_order_cancellation_by_client_id, lines 218-258
cancellation_plan(h, current_bonus, current_reserved, order_id, u) ==
    LET found == find_reserved_amount_for_order(h, order_id)
        reserved_for_order == IF found.found THEN found.total ELSE F(u)
        return_amount == Min(reserved_for_order, F(current_reserved))
        new_bonus == F(current_bonus) + return_amount
        new_reserved == F(current_reserved) - return_amount
    IN  Write("order_cancelled", ToInt(new_bonus), ToInt(new_reserved),
              0, -return_amount, "cancelled", 0, FALSE)

\* handle_lead_bonus_reservation, lines 747-913
lead_reservation_plan(h, current_bonus, current_reserved, order_id, requested, order_total, current_discount) ==
    LET max_total_discount == Half(order_total)
        amount_was_corrected == current_discount + requested > max_total_discount
        reserve_amount == IF amount_was_corrected
                          THEN max_total_discount - current_discount
                          ELSE requested
        found == find_reserved_amount_for_order(h, order_id)
        already_reserved == IF found.found THEN found.total ELSE 0
        max_allowed_reserve == Half(order_total)
        total_reserve_after == already_reserved + reserve_amount
        bonus_to_reserve == Min(reserve_amount, F(current_bonus))
    IN  IF requested <= 0 THEN NoWrite(400, "no_reserve_amount")
        ELSE IF order_total <= 0 THEN NoWrite(400, "bad_order_total")
        ELSE IF amount_was_corrected /\ reserve_amount <= 0
        THEN NoWrite(400, "discount_at_maximum")
        ELSE IF has_manual_reserve_for_order(h, order_id)
        THEN NoWrite(200, "already_reserved")
        ELSE IF total_reserve_after > max_allowed_reserve
        THEN NoWrite(400, "reserve_over_limit")
        ELSE IF bonus_to_reserve <= 0 THEN NoWrite(200, "nothing_to_reserve")
        ELSE Write("manual_reserve",
                   ToInt(F(current_bonus) - bonus_to_reserve),
                   ToInt(F(current_reserved) + bonus_to_reserve),
                   0, bonus_to_reserve, "manual_reserve",
                   current_discount + bonus_to_reserve, amount_was_corrected)

----------------------------------------------------------------------------
(* The requests.  In Spec every handler runs from its first read to its    *)
(* last write with no other request in between (sequential deliveries).    *)

\* the fields of a payload: the order, the customer, the order total, the
\* amount and, for a manual reserve, the lead
PayloadFields == {"id", "client_id", "total", "amount", "lead_id"}

Request(operation, order_id, lead_id, value, order_total, has_promo) ==
    [op |-> operation, order |-> order_id, lead |-> lead_id, amount |-> value,
     total |-> order_total, promo |-> has_promo, given |-> PayloadFields]

NoRequest == Request("none", 0, NoLead, 0, 0, FALSE)

\* the keys of the response body a handler returns for what it decided
\* (lines 162-174, 262-273, 386-395, 918-943); every other response is a
\* message or an error
ResponseKeys(plan) ==
    CASE plan.result = "order_completed" ->
            {"message", "success", "operation", "orderId", "buyerId", "previousBonus",
             "previousReserved", "usedBonus", "accruedBonus", "newBonus", "newReserved"}
      [] plan.result = "order_cancelled" ->
            {"message", "success", "operation", "orderId", "buyerId", "previousBonus",
             "previousReserved", "returnedBonus", "newBonus", "newReserved"}
      [] plan.result = "order_reserved" ->
            {"message", "success", "operation", "orderId", "reservedAmount",
             "previousBonus", "newBonus", "newReserved"}
      [] plan.result = "manual_reserve" ->
            {"message", "success", "operation", "lead_id", "order_id", "client_id",
             "reserved_amount", "previous_bonus", "new_bonus", "new_reserved",
             "order_total", "already_reserved_before", "total_reserved_now",
             "max_allowed_reserve", "pipeline_type", "discount_updated", "amount_correction"}
      [] OTHER -> IF plan.code = 200 THEN {"message", "success"} ELSE {"error", "success"}

\* what is remembered of a handled request: the request, the response, and
\* whether it redelivers the request handled just before, which had written
Handled(req, plan, log) ==
    [req     |-> req,
     code    |-> plan.code,
     result  |-> plan.result,
     wrote   |-> plan.write,
     granted |-> IF plan.write THEN plan.used ELSE 0,
     history_updated |-> log,
     pre_active   |-> active,
     pre_reserved |-> reserved,
     again   |-> last.req = req /\ last.wrote,
     fault   |-> "none",
     body    |-> ResponseKeys(plan)]

\* the date of datetime.utcnow()
Today == now \div 2

\* a store that would never lower a reserved balance it holds
update_buyer_bonus_keeping_reserve(nb, nr) ==
    /\ active' = nb
    /\ reserved' = Max(reserved, nr)
    /\ expiry' = Today + BONUS_EXPIRY_DAYS

\* a write that would keep an expiry date already stored
update_buyer_bonus_keeping_date(new_bonus_amount, new_reserved_amount) ==
    /\ active' = new_bonus_amount
    /\ reserved' = new_reserved_amount
    /\ expiry' = IF expiry = NoDate THEN Today + BONUS_EXPIRY_DAYS ELSE expiry

\* update_buyer_bonus: one PUT of the active balance, the expiry date and
\* the reserved balance
update_buyer_bonus(new_bonus_amount, new_reserved_amount) ==
    /\ active' = new_bonus_amount
    /\ reserved' = new_reserved_amount
    /\ expiry' = Today + BONUS_EXPIRY_DAYS

\* a manual reserve that would write the granted amount as the order's
\* whole discount
OrderDiscounts_granted_only(req, plan) ==
    IF plan.write /\ plan.kind = "manual_reserve"
    THEN [discount EXCEPT ![req.order] = plan.used]
    ELSE IF req.op = "reserve"
    THEN [discount EXCEPT ![req.order] = F(req.amount)]
    ELSE discount

\* the discount_amount of the CRM's orders once req is handled: an order
\* webhook carries the discount the order has in the CRM at that moment, a
\* manual reserve writes the order's new discount (lines 887-894)
OrderDiscounts(req, plan) ==
    IF plan.write /\ plan.kind = "manual_reserve"
    THEN [discount EXCEPT ![req.order] = plan.new_discount]
    ELSE IF req.op = "reserve"
    THEN [discount EXCEPT ![req.order] = F(req.amount)]
    ELSE discount

\* a handler of bonus_operations.py run to its end on the stored account:
\* the balance write, then (manual reserve only) the order's discount, then
\* log_transaction on the history as it is stored
Apply(req, plan) ==
    LET log == log_transaction(history, req.order, plan.bonus_amount, plan.used, active, plan.new_bonus, plan.kind, req.lead, req.total)
    IN  /\ ops < MaxOps
        /\ ops' = ops + 1
        /\ discount' = OrderDiscounts(req, plan)
        /\ IF plan.write
           THEN /\ update_buyer_bonus(plan.new_bonus, plan.new_reserved)
                /\ history' = log.history
                /\ last' = Handled(req, plan, log.history_updated)
           ELSE /\ UNCHANGED <<active, reserved, expiry, history>>
                /\ last' = Handled(req, plan, FALSE)
        /\ UNCHANGED <<now, wk, buyer, promo_store>>

\* POST /order-reserve
OrderReserve(order_id, d, promo) ==
    Apply(Request("reserve", order_id, NoLead, d, ProductsTotal(order_id), promo),
          reservation_plan(active, reserved, d, promo))

\* POST /order-complete
OrderComplete(order_id, order_total, d) ==
    Apply(Request("complete", order_id, NoLead, d, order_total, FALSE),
          completion_plan(history, active, reserved, order_id, order_total, d))

\* POST /order-cancel
OrderCancel(order_id, u) ==
    Apply(Request("cancel", order_id, NoLead, u, 0, FALSE),
          cancellation_plan(history, active, reserved, order_id, u))

\* POST /lead-reserve
LeadReserve(order_id, requested) ==
    Apply(Request("lead_reserve", order_id, LeadOf(order_id), requested, ProductsTotal(order_id), FALSE),
          lead_reservation_plan(history, active, reserved, order_id, F(requested), F(ProductsTotal(order_id)), discount[order_id]))

\* time passes: half a day, the expiry period, or half a day more than it
Tick(half_days) ==
    /\ ops < MaxOps
    /\ ops' = ops + 1
    /\ now' = now + half_days
    /\ UNCHANGED <<store, last, wk, buyer, promo_store>>

InitialBonus == {0, 100}

Init ==
    /\ active \in InitialBonus
    /\ reserved = 0
    /\ expiry = IF active > 0 THEN BONUS_EXPIRY_DAYS ELSE NoDate
    /\ history = <<>>
    /\ discount = [o \in OrderIds |-> 0]
    /\ now = 0
    /\ last = [req |-> NoRequest, code |-> 0, result |-> "none", wrote |-> FALSE, granted |-> 0, history_updated |-> FALSE, pre_active |-> 0, pre_reserved |-> 0, again |-> FALSE, fault |-> "none", body |-> {}]
    /\ ops = 0
    /\ wk = <<>>
    /\ buyer = TRUE
    /\ PromoUnused

Next ==
    \/ \E o \in OrderIds, p \in ReservePayloads : p[1] <= ProductsTotal(o) /\ OrderReserve(o, p[1], p[2])
    \/ \E o \in OrderIds, d \in CompleteDiscounts : OrderComplete(o, ProductsTotal(o) - d, d)
    \/ \E o \in OrderIds, u \in CancelAmounts : OrderCancel(o, u)
    \/ \E o \in OrderIds, a \in LeadAmounts : LeadReserve(o, a)
    \/ \E half_days \in {1, 2 * BONUS_EXPIRY_DAYS, 2 * BONUS_EXPIRY_DAYS + 1} : Tick(half_days)

Spec == Init /\ [][Next]_vars

\* the same requests, and requests whose amounts are negative
NextAnyPayload ==
    \/ Next
    \/ \E o \in OrderIds, t \in NegativeTotals, d \in CompleteDiscounts : OrderComplete(o, t, d)
    \/ \E o \in OrderIds, u \in NegativeAmounts : OrderCancel(o, u)

SpecAnyPayload == Init /\ [][NextAnyPayload]_vars

----------------------------------------------------------------------------
(* The accrual lambda (bonus_accrual_lambda/lambda_function.py): POST      *)
(* accrues, deducts or does both for an order, GET /check-expiry runs the  *)
(* expiry check alone.  It keeps its balance in the same buyer fields and  *)
(* writes "🎁" lines to the same history.  Its payload amounts are whole    *)
(* numbers here, so its balances are whole numbers.                        *)

MaxLegacyOps == 3
LEGACY_HISTORY_RECORDS == 10
LEGACY_HISTORY_LENGTH == 1000
LEGACY_CUT_RECORDS == 7

\* the order id check_bonus_expiry logs under: "EXPIRED_<timestamp>", a
\* token no order and no earlier line has
ExpiredId == 0

\* usedBonusAmount of the POST payloads
LegacyUsed == {30}

\* "#<order_id>" in history
HasOrderToken(h, order_id) ==
    \E i \in 1..Len(h) : HasToken(order_id, h[i])

\* the line both loggers format: "+added | -used | old→new"
LegacyLine(order_id, added_bonus, used_bonus, old_balance, new_balance, order_total) ==
    [kind   |-> "bonus",
     order  |-> order_id,
     lead   |-> NoLead,
     verb   |-> IF used_bonus > 0 THEN "used" ELSE "none",
     amt    |-> IF used_bonus > 0 THEN used_bonus ELSE 0,
     acc    |-> IF added_bonus > 0 THEN added_bonus ELSE 0,
     total  |-> order_total,
     before |-> old_balance,
     after  |-> new_balance]

\* the text both loggers store: the new line first, at most ten lines
\* joined by '\n'; a text longer than 1000 characters is replaced by its
\* first seven lines and '\n...'
legacy_new_history(entries) ==
    LET history_lines == Take(entries, LEGACY_HISTORY_RECORDS)
    IN  IF TextLength(history_lines) > LEGACY_HISTORY_LENGTH
        THEN Take(history_lines, LEGACY_CUT_RECORDS) \o <<Marker>>
        ELSE history_lines

\* the lines of the history once the new text is stored
LegacyInsert(h, line) == SplitLines(legacy_new_history(<<line>> \o h))

\* log_combined_transaction_in_keycrm on the history h it has just read
log_combined_transaction_in_keycrm(h, order_id, used_bonus, added_bonus, old_balance, new_balance, order_total) ==
    IF order_id # ExpiredId /\ HasOrderToken(h, order_id)
    THEN [history_updated |-> FALSE, history |-> h]
    ELSE [history_updated |-> TRUE,
          history |-> LegacyInsert(h, LegacyLine(order_id, added_bonus, used_bonus, old_balance, new_balance, order_total))]

\* log_transaction_in_keycrm: a negative bonus_amount is a deduction
log_transaction_in_keycrm(h, order_id, bonus_amount, old_balance, new_balance, order_total) ==
    log_combined_transaction_in_keycrm(h, order_id,
        IF bonus_amount < 0 THEN -bonus_amount ELSE 0,
        IF bonus_amount >= 0 THEN bonus_amount ELSE 0,
        old_balance, new_balance, order_total)

\* a check that would call a balance expired as soon as it is stored
IsPastAlways(bonus_expiry_date, t) == TRUE

\* datetime.utcnow() > the expiry date at 00:00
IsPast(bonus_expiry_date, t) == t > 2 * bonus_expiry_date

\* a check that would report the balance it leaves, not the one it removed
check_bonus_expiry_reporting_zero(bonus_balance, bonus_expiry_date, t) ==
    IF bonus_balance <= 0 \/ bonus_expiry_date = NoDate
    THEN [expired |-> FALSE, expired_amount |-> 0]
    ELSE [expired |-> IsPast(bonus_expiry_date, t), expired_amount |-> 0]

\* check_bonus_expiry: what it reports for the balance and date it reads
check_bonus_expiry(bonus_balance, bonus_expiry_date, t) ==
    IF bonus_balance <= 0 \/ bonus_expiry_date = NoDate
    THEN [expired |-> FALSE, expired_amount |-> 0]
    ELSE IF IsPast(bonus_expiry_date, t)
    THEN [expired |-> TRUE, expired_amount |-> bonus_balance]
    ELSE [expired |-> FALSE, expired_amount |-> 0]

\* a PUT after which the store would hold only the fields that were sent
update_buyer_bonus_clearing_reserve(new_bonus_amount) ==
    /\ active' = new_bonus_amount
    /\ expiry' = Today + BONUS_EXPIRY_DAYS
    /\ reserved' = 0

\* update_buyer_bonus_in_keycrm: one PUT of the active balance and the
\* expiry date; the reserved balance is not among the fields it sends and
\* stays as stored
update_buyer_bonus_in_keycrm(new_bonus_amount) ==
    /\ active' = new_bonus_amount
    /\ expiry' = Today + BONUS_EXPIRY_DAYS
    /\ reserved' = reserved

LegacyRequest(operation, order_id, used, order_total, with_email) ==
    [op |-> operation, order |-> order_id, lead |-> NoLead, amount |-> used,
     total |-> order_total, promo |-> FALSE, given |-> PayloadFields, email |-> with_email,
     phone |-> TRUE,
     bonus |-> IF operation \in {"accrue", "combined"} THEN ToInt(BonusOf(F(order_total))) ELSE 0]

\* plans of the accrual lambda: "sweep" says that check_bonus_expiry zeroed
\* the balance, "write" that the operation itself writes new_bonus
LegacyPlan(status, why, swept, writes, nb, added, used, gone) ==
    [code |-> status, result |-> why, sweep |-> swept, write |-> writes,
     new_bonus |-> nb, added |-> added, used |-> used, expired_amount |-> gone]

\* handle_bonus_accrual and sync_with_keycrm: accrual only
accrual_plan(h, current_bonus, order_id, bonus_amount, with_email) ==
    IF with_email /\ HasOrderToken(h, order_id)
    THEN LegacyPlan(200, "duplicate", FALSE, FALSE, 0, 0, 0, 0)
    ELSE LegacyPlan(200, "accrued", FALSE, TRUE, current_bonus + bonus_amount, bonus_amount, 0, 0)

\* a deduction that would not compare the amount with the balance
deduction_plan_unchecked(h, current_bonus, bonus_expiry_date, t, order_id, deducted_amount, with_email) ==
    LET expiry_check == check_bonus_expiry(current_bonus, bonus_expiry_date, t)
    IN  IF with_email /\ HasOrderToken(h, order_id)
        THEN LegacyPlan(200, "duplicate", FALSE, FALSE, 0, 0, 0, 0)
        ELSE IF expiry_check.expired
        THEN LegacyPlan(500, "bonuses_expired", TRUE, FALSE, 0, 0, 0, expiry_check.expired_amount)
        ELSE LegacyPlan(200, "deducted", FALSE, TRUE, current_bonus - deducted_amount, 0, deducted_amount, 0)

\* handle_bonus_accrual and sync_bonus_deduction_with_keycrm: deduction only
deduction_plan(h, current_bonus, bonus_expiry_date, t, order_id, deducted_amount, with_email) ==
    LET expiry_check == check_bonus_expiry(current_bonus, bonus_expiry_date, t)
    IN  IF with_email /\ HasOrderToken(h, order_id)
        THEN LegacyPlan(200, "duplicate", FALSE, FALSE, 0, 0, 0, 0)
        ELSE IF expiry_check.expired
        THEN LegacyPlan(500, "bonuses_expired", TRUE, FALSE, 0, 0, 0, expiry_check.expired_amount)
        ELSE IF current_bonus < deducted_amount
        THEN LegacyPlan(500, "insufficient", FALSE, FALSE, 0, 0, 0, 0)
        ELSE LegacyPlan(200, "deducted", FALSE, TRUE, current_bonus - deducted_amount, 0, deducted_amount, 0)

\* handle_bonus_accrual and process_combined_bonus_operation
combined_plan(h, current_bonus, bonus_expiry_date, t, order_id, used_bonus_amount, new_bonus_amount, with_email) ==
    LET expiry_check == check_bonus_expiry(current_bonus, bonus_expiry_date, t)
    IN  IF with_email /\ HasOrderToken(h, order_id)
        THEN LegacyPlan(200, "duplicate", FALSE, FALSE, 0, 0, 0, 0)
        ELSE IF used_bonus_amount > 0 /\ expiry_check.expired
        THEN LegacyPlan(500, "bonuses_expired", TRUE, FALSE, 0, 0, 0, expiry_check.expired_amount)
        ELSE IF current_bonus < used_bonus_amount
        THEN LegacyPlan(500, "insufficient", FALSE, FALSE, 0, 0, 0, 0)
        ELSE LegacyPlan(200, "combined", FALSE, TRUE, current_bonus - used_bonus_amount + new_bonus_amount, new_bonus_amount, used_bonus_amount, 0)

\* handle_check_bonus_expiry
check_expiry_plan(current_bonus, bonus_expiry_date, t) ==
    LET expiry_check == check_bonus_expiry(current_bonus, bonus_expiry_date, t)
    IN  IF expiry_check.expired
        THEN LegacyPlan(200, "expired", TRUE, FALSE, 0, 0, 0, expiry_check.expired_amount)
        ELSE LegacyPlan(200, "not_expired", FALSE, FALSE, 0, 0, 0, 0)

\* a handler of the accrual lambda run to its end; creates says that it
\* first creates the buyer (create_buyer_in_keycrm: no balance, no history)
LegacyRun(req, plan, creates) ==
    LET swept == log_transaction_in_keycrm(history, ExpiredId, -active, active, 0, 0)
        log == log_combined_transaction_in_keycrm(history, req.order, plan.used, plan.added, active, plan.new_bonus, req.total)
        answer == [req |-> req, code |-> plan.code, result |-> plan.result,
                   wrote |-> plan.sweep \/ plan.write,
                   granted |-> IF plan.sweep THEN plan.expired_amount ELSE plan.used,
                   history_updated |-> IF plan.sweep THEN swept.history_updated
                                       ELSE plan.write /\ log.history_updated,
                   pre_active |-> active, pre_reserved |-> reserved,
                   again |-> last.req = req /\ last.wrote,
                   fault |-> "none",
                   body |-> IF plan.result = "duplicate"
                            THEN {"message", "success", "duplicate", "orderId", "duplicate_details"}
                            ELSE IF plan.code = 200 THEN {"message", "success", "orderId"}
                            ELSE {"error", "success"}]
    IN  /\ ops < MaxOps
        /\ ops' = ops + 1
        /\ last' = answer
        /\ IF plan.sweep
           THEN /\ update_buyer_bonus_in_keycrm(0)
                /\ history' = swept.history
           ELSE IF plan.write
           THEN /\ update_buyer_bonus_in_keycrm(plan.new_bonus)
                /\ history' = log.history
           ELSE UNCHANGED <<active, expiry, reserved, history>>
        /\ buyer' = (buyer \/ creates)
        /\ UNCHANGED <<discount, now, wk, promo_store>>

\* a handler of the accrual lambda run to its end on the stored account
LegacyApply(req, plan) == LegacyRun(req, plan, FALSE)

\* POST with bonusAmount only
LegacyAccrue(order_id, with_email) ==
    LegacyApply(LegacyRequest("accrue", order_id, 0, ProductsTotal(order_id), with_email),
                accrual_plan(history, active, order_id, ToInt(BonusOf(F(ProductsTotal(order_id)))), with_email))

\* POST with usedBonusAmount only
LegacyDeduct(order_id, used, with_email) ==
    LegacyApply(LegacyRequest("deduct", order_id, used, ProductsTotal(order_id), with_email),
                deduction_plan(history, active, expiry, now, order_id, used, with_email))

\* POST with usedBonusAmount and bonusAmount
LegacyCombined(order_id, used, with_email) ==
    LegacyApply(LegacyRequest("combined", order_id, used, ProductsTotal(order_id), with_email),
                combined_plan(history, active, expiry, now, order_id, used, ToInt(BonusOf(F(ProductsTotal(order_id)))), with_email))

\* GET /check-expiry
CheckExpiry ==
    LegacyApply(LegacyRequest("check_expiry", ExpiredId, 0, 0, FALSE),
                check_expiry_plan(active, expiry, now))

\* an account whose balance a manager typed into the CRM has no expiry date
InitLegacy ==
    /\ \E account \in {<<0, NoDate>>, <<100, BONUS_EXPIRY_DAYS>>, <<100, NoDate>>} :
            active = account[1] /\ expiry = account[2]
    /\ reserved = 0
    /\ history = <<>>
    /\ discount = [o \in OrderIds |-> 0]
    /\ now = 0
    /\ last = [req |-> NoRequest, code |-> 0, result |-> "none", wrote |-> FALSE, granted |-> 0, history_updated |-> FALSE, pre_active |-> 0, pre_reserved |-> 0, again |-> FALSE, fault |-> "none", body |-> {}]
    /\ ops = 0
    /\ wk = <<>>
    /\ buyer = TRUE
    /\ PromoUnused

NextLegacy ==
    \/ ops < MaxLegacyOps /\ Next
    \/ \E o \in OrderIds, e \in BOOLEAN : ops < MaxLegacyOps /\ LegacyAccrue(o, e)
    \/ \E o \in OrderIds, u \in LegacyUsed, e \in BOOLEAN : ops < MaxLegacyOps /\ LegacyDeduct(o, u, e)
    \/ \E o \in OrderIds, u \in LegacyUsed, e \in BOOLEAN : ops < MaxLegacyOps /\ LegacyCombined(o, u, e)
    \/ ops < MaxLegacyOps /\ CheckExpiry

SpecLegacy == InitLegacy /\ [][NextLegacy]_vars

----------------------------------------------------------------------------
(* The history writers on long histories.  The account has a history of    *)
(* earlier completions, written by log_transaction itself, and then        *)
(* receives the requests of both lambdas.                                  *)

MaxLedgerOps == 2

\* how many completions the account has behind it
LedgerSizes == {9, 10, 35, 48, 49, 50}

\* the earlier orders <<id, grand_total, discount_amount>> and the balance
\* before the first of them: a small, a medium and a large order
EarlierOrders == {<<345, 100, 0, 100>>, <<987654, 15000, 0, 10000>>, <<98765432, 1500000, 50000, 1000000>>}

\* the entries n order-complete webhooks for an order without reserve lines
\* leave, newest first, the balance before the first being start
EarlierHistory(n, order_id, order_total, d, start) ==
    LET bonus_amount == BonusOf(F(order_total))
        accrued == ToInt(bonus_amount)
    IN  [j \in 1..n |-> HistoryLine(order_id, bonus_amount, F(d),
                                    start + (n - j) * accrued,
                                    start + (n - j + 1) * accrued,
                                    "completed", NoLead, order_total)]

\* the text of these entries was never cut: log_transaction stored them all
IsUncut(entries) == SplitLines(new_history(entries)) = entries

InitLedger ==
    /\ \E n \in LedgerSizes, e \in EarlierOrders :
          /\ IsUncut(EarlierHistory(n, e[1], e[2], e[3], e[4]))
          /\ history = EarlierHistory(n, e[1], e[2], e[3], e[4])
          /\ active = e[4] + n * ToInt(BonusOf(F(e[2])))
    /\ reserved = 0
    /\ expiry = BONUS_EXPIRY_DAYS
    /\ discount = [o \in OrderIds |-> 0]
    /\ now = 0
    /\ last = [req |-> NoRequest, code |-> 0, result |-> "none", wrote |-> FALSE, granted |-> 0, history_updated |-> FALSE, pre_active |-> 0, pre_reserved |-> 0, again |-> FALSE, fault |-> "none", body |-> {}]
    /\ ops = 0
    /\ wk = <<>>
    /\ buyer = TRUE
    /\ PromoUnused

NextLedger ==
    \/ \E o \in OrderIds, p \in ReservePayloads : ops < MaxLedgerOps /\ p[1] <= ProductsTotal(o) /\ OrderReserve(o, p[1], p[2])
    \/ \E o \in OrderIds, d \in CompleteDiscounts : ops < MaxLedgerOps /\ OrderComplete(o, ProductsTotal(o) - d, d)
    \/ \E o \in OrderIds, u \in CancelAmounts : ops < MaxLedgerOps /\ OrderCancel(o, u)
    \/ \E o \in OrderIds, a \in LeadAmounts : ops < MaxLedgerOps /\ LeadReserve(o, a)
    \/ \E o \in OrderIds, e \in BOOLEAN : ops < MaxLedgerOps /\ LegacyAccrue(o, e)
    \/ \E o \in OrderIds, u \in LegacyUsed, e \in BOOLEAN : ops < MaxLedgerOps /\ LegacyDeduct(o, u, e)
    \/ \E o \in OrderIds, u \in LegacyUsed, e \in BOOLEAN : ops < MaxLedgerOps /\ LegacyCombined(o, u, e)

SpecLedger == InitLedger /\ [][NextLedger]_vars

----------------------------------------------------------------------------
(* Overlapping deliveries.  In SpecConc each delivery is handled by its own *)
(* worker (one Lambda invocation), and a worker's requests to the store are *)
(* separate steps: the reads before the balance write, the balance write,  *)
(* the read of the history inside log_transaction, the write of the        *)
(* history.  Steps of different workers interleave freely.                 *)

MaxWorkers == 2
Workers == 1..MaxWorkers

\* the deliveries that can overlap: webhooks of order 1
ConcRequests ==
    { Request("reserve", 1, NoLead, 20, ProductsTotal(1), TRUE),
      Request("lead_reserve", 1, LeadOf(1), 30, ProductsTotal(1), FALSE),
      Request("complete", 1, NoLead, 0, ProductsTotal(1), FALSE),
      Request("cancel", 1, NoLead, 0, 0, FALSE) }

\* what the handler of req computes from the account, the history and the
\* order's discount it has read
PlanOf(req, h, current_bonus, current_reserved, current_discount) ==
    CASE req.op = "reserve" ->
            reservation_plan(current_bonus, current_reserved, req.amount, req.promo)
      [] req.op = "complete" ->
            completion_plan(h, current_bonus, current_reserved, req.order, req.total, req.amount)
      [] req.op = "cancel" ->
            cancellation_plan(h, current_bonus, current_reserved, req.order, req.amount)
      [] req.op = "lead_reserve" ->
            lead_reservation_plan(h, current_bonus, current_reserved, req.order, F(req.amount), F(req.total), current_discount)

\* a handler that would write the history line before the balances
step_after_history_first(pc) ==
    CASE pc = "get_buyer"   -> "get_history"
      [] pc = "get_history" -> "put_history"
      [] pc = "put_history" -> "put_buyer"
      [] pc = "put_buyer"   -> "done"

\* the order of a handler's requests to the store
step_after(pc) ==
    CASE pc = "get_buyer"   -> "put_buyer"
      [] pc = "put_buyer"   -> "get_history"
      [] pc = "get_history" -> "put_history"
      [] pc = "put_history" -> "done"

IdleWorker ==
    [pc |-> "idle", req |-> NoRequest, old_balance |-> 0, plan |-> NoWrite(0, "none"),
     hist |-> <<>>, wrote |-> FALSE, logged |-> FALSE, after |-> FALSE,
     read |-> <<0, 0>>, stale |-> FALSE]

\* a delivery arrives and a worker starts its handler
Receive(w, req) ==
    /\ wk[w].pc = "idle"
    /\ IF w = 1 THEN TRUE ELSE wk[w - 1].pc # "idle"
    /\ wk' = [wk EXCEPT ![w] = [IdleWorker EXCEPT !.pc = "get_buyer", !.req = req]]
    /\ discount' = OrderDiscounts(req, NoWrite(0, "none"))
    /\ UNCHANGED <<active, reserved, expiry, history, now, last, ops, buyer, promo_store>>

\* the handler reads the buyer (and the history and the order where it
\* reads them) and decides what to write; nothing to write ends the handler.
\* "after" notes that the balances read already hold the balance write of
\* another delivery of the same request, "read" the balances read
GetBuyer(w) ==
    LET plan == PlanOf(wk[w].req, history, active, reserved, discount[wk[w].req.order])
    IN  /\ wk[w].pc = "get_buyer"
        /\ wk' = [wk EXCEPT ![w].pc = IF plan.write THEN step_after("get_buyer") ELSE "done",
                            ![w].old_balance = active,
                            ![w].read = <<active, reserved>>,
                            ![w].after = \E v \in Workers \ {w} : wk[v].req = wk[w].req /\ wk[v].wrote,
                            ![w].plan = plan]
        /\ UNCHANGED <<store, now, last, ops, buyer, promo_store>>

\* update_buyer_bonus with what was decided, then (manual reserve) the PUT
\* of the order's discount.  "stale" notes for the handlers that have read
\* the balances and not yet written them that the balances have changed
PutBuyer(w) ==
    /\ wk[w].pc = "put_buyer"
    /\ update_buyer_bonus(wk[w].plan.new_bonus, wk[w].plan.new_reserved)
    /\ discount' = IF wk[w].plan.kind = "manual_reserve"
                   THEN [discount EXCEPT ![wk[w].req.order] = wk[w].plan.new_discount]
                   ELSE discount
    /\ wk' = [v \in Workers |->
                IF v = w
                THEN [wk[v] EXCEPT !.pc = step_after("put_buyer"), !.wrote = TRUE]
                ELSE IF wk[v].pc \in {"put_buyer", "get_history", "put_history"} /\ ~wk[v].wrote
                THEN [wk[v] EXCEPT !.stale = TRUE]
                ELSE wk[v]]
    /\ UNCHANGED <<history, now, last, ops, buyer, promo_store>>

\* log_transaction reads the history
GetHistory(w) ==
    /\ wk[w].pc = "get_history"
    /\ wk' = [wk EXCEPT ![w].pc = step_after("get_history"), ![w].hist = history]
    /\ UNCHANGED <<store, now, last, ops, buyer, promo_store>>

\* log_transaction writes the history it has read with the new line, unless
\* it takes the line for a duplicate
PutHistory(w) ==
    LET log == log_transaction(wk[w].hist, wk[w].req.order, wk[w].plan.bonus_amount, wk[w].plan.used, wk[w].old_balance, wk[w].plan.new_bonus, wk[w].plan.kind, wk[w].req.lead, wk[w].req.total)
    IN  /\ wk[w].pc = "put_history"
        /\ history' = IF log.history_updated THEN log.history ELSE history
        /\ wk' = [wk EXCEPT ![w].pc = step_after("put_history"),
                            ![w].hist = <<>>,
                            ![w].logged = log.history_updated]
        /\ UNCHANGED <<active, reserved, expiry, discount, now, last, ops, buyer, promo_store>>

InitConc ==
    /\ active \in InitialBonus
    /\ reserved = 0
    /\ expiry = IF active > 0 THEN BONUS_EXPIRY_DAYS ELSE NoDate
    /\ history = <<>>
    /\ discount = [o \in OrderIds |-> 0]
    /\ now = 0
    /\ last = [req |-> NoRequest, code |-> 0, result |-> "none", wrote |-> FALSE, granted |-> 0, history_updated |-> FALSE, pre_active |-> 0, pre_reserved |-> 0, again |-> FALSE, fault |-> "none", body |-> {}]
    /\ ops = 0
    /\ wk = [w \in Workers |-> IdleWorker]
    /\ buyer = TRUE
    /\ PromoUnused

NextConc ==
    \/ \E w \in Workers, req \in ConcRequests : Receive(w, req)
    \/ \E w \in Workers : GetBuyer(w)
    \/ \E w \in Workers : PutBuyer(w)
    \/ \E w \in Workers : GetHistory(w)
    \/ \E w \in Workers : PutHistory(w)

SpecConc == InitConc /\ [][NextConc]_vars

----------------------------------------------------------------------------
(* Failures of the record store.  One request of a handler to the store    *)
(* fails (make_request returns success False, keycrm_client.py lines       *)
(* 57-64); the handler is run to its end.                                  *)

MaxFaultOps == 3

\* the request of the handler that fails: the GET of the order (manual
\* reserve), the GET of the buyer, the GET of the buyer made by
\* get_bonus_history in the handler, the PUT of the balances, the GET made
\* by get_bonus_history in log_transaction, the PUT of the history
StoreFaults == {"get_order", "get_buyer", "get_history", "put_buyer", "log_get_history", "put_history"}

\* the webhooks that can meet a failure
FaultyRequests ==
    UNION {{ Request("reserve", o, NoLead, 20, ProductsTotal(o), TRUE),
             Request("complete", o, NoLead, 20, ProductsTotal(o) - 20, FALSE),
             Request("cancel", o, NoLead, 0, 0, FALSE),
             Request("lead_reserve", o, LeadOf(o), 30, ProductsTotal(o), FALSE) } : o \in OrderIds}

\* the results decided before the handler asks the store for the buyer
DecidedBeforeBuyer == {"no_bonuses", "no_reserve_amount", "bad_order_total", "discount_at_maximum"}

\* get_bonus_history answers None on a failure and its callers go on with
\* '' (lines 78, 219, 523, 828): the history a failed read yields
ReadHistory(failed) == IF failed THEN <<>> ELSE history

\* the handler of req with the failure fault in its course
HandleWithFault(req, fault) ==
    LET seen == ReadHistory(fault = "get_history")
        plan == PlanOf(req, seen, active, reserved, discount[req.order])
        log == log_transaction(ReadHistory(fault = "log_get_history"), req.order,
                   plan.bonus_amount, plan.used, active, plan.new_bonus, plan.kind,
                   req.lead, req.total)
        answer(p, logged) == [Handled(req, p, logged) EXCEPT !.fault = fault]
    IN  /\ ops < MaxOps
        /\ ops' = ops + 1
        /\ UNCHANGED <<now, wk, buyer, promo_store>>
        /\ CASE fault = "get_order" ->
                  /\ req.op = "lead_reserve"
                  /\ last' = answer(NoWrite(400, "order_unavailable"), FALSE)
                  /\ UNCHANGED store
             [] fault = "get_buyer" ->
                  /\ plan.result \notin DecidedBeforeBuyer
                  /\ last' = answer(NoWrite(500, "store_error"), FALSE)
                  /\ discount' = OrderDiscounts(req, NoWrite(500, "store_error"))
                  /\ UNCHANGED <<active, reserved, expiry, history>>
             [] fault = "get_history" ->
                  /\ req.op \in {"complete", "cancel", "lead_reserve"}
                  /\ plan.result \notin DecidedBeforeBuyer
                  /\ last' = answer(plan, plan.write /\ log.history_updated)
                  /\ discount' = OrderDiscounts(req, plan)
                  /\ IF plan.write
                     THEN update_buyer_bonus(plan.new_bonus, plan.new_reserved) /\ history' = log.history
                     ELSE UNCHANGED <<active, reserved, expiry, history>>
             [] fault = "put_buyer" ->
                  /\ plan.write
                  /\ last' = answer(NoWrite(500, "store_error"), FALSE)
                  /\ discount' = OrderDiscounts(req, NoWrite(500, "store_error"))
                  /\ UNCHANGED <<active, reserved, expiry, history>>
             [] fault = "log_get_history" ->
                  /\ plan.write
                  /\ last' = answer(plan, log.history_updated)
                  /\ discount' = OrderDiscounts(req, plan)
                  /\ update_buyer_bonus(plan.new_bonus, plan.new_reserved)
                  /\ history' = log.history
             [] fault = "put_history" ->
                  /\ plan.write /\ log.history_updated
                  /\ last' = answer(plan, FALSE)
                  /\ discount' = OrderDiscounts(req, plan)
                  /\ update_buyer_bonus(plan.new_bonus, plan.new_reserved)
                  /\ history' = history

NextFaulty ==
    \/ ops < MaxFaultOps /\ Next
    \/ \E req \in FaultyRequests : ops < MaxFaultOps /\ HandleWithFault(req, "get_order")
    \/ \E req \in FaultyRequests : ops < MaxFaultOps /\ HandleWithFault(req, "get_buyer")
    \/ \E req \in FaultyRequests : ops < MaxFaultOps /\ HandleWithFault(req, "get_history")
    \/ \E req \in FaultyRequests : ops < MaxFaultOps /\ HandleWithFault(req, "put_buyer")
    \/ \E req \in FaultyRequests : ops < MaxFaultOps /\ HandleWithFault(req, "log_get_history")
    \/ \E req \in FaultyRequests : ops < MaxFaultOps /\ HandleWithFault(req, "put_history")

SpecFaulty == Init /\ [][NextFaulty]_vars

----------------------------------------------------------------------------
(* Payloads as they arrive: a field may be absent, an amount or a total    *)
(* may be zero or negative.  Each handler makes its checks and then runs   *)
(* as above.                                                               *)

MaxPayloadOps == 2

\* the payloads: complete, or lacking one field
Givens == {PayloadFields} \cup {PayloadFields \ {f} : f \in PayloadFields}

\* grand_total, products_total and orderTotal of the payloads for order o
PayloadTotals(o) == {ProductsTotal(o), 0, -100}

\* discount_amount, used_bonus_amount, reserve_amount, usedBonusAmount
PayloadAmounts == {20, 0, -30}

\* bonusAmount
PayloadBonuses == {10, 0}

\* a response 400 of a handler that has read and written nothing
Reject(req, why) ==
    /\ ops < MaxOps
    /\ ops' = ops + 1
    /\ last' = Handled(req, NoWrite(400, why), FALSE)
    /\ UNCHANGED <<store, now, wk, buyer, promo_store>>

\* handle_order_completion, lines 36-62: id, grand_total and client_id must
\* be there, discount_amount is 0 when absent
OrderCompleteWebhook(given, order_id, order_total, d) ==
    LET discount_amount == IF "amount" \in given THEN d ELSE 0
        req == [Request("complete", order_id, NoLead, discount_amount, order_total, FALSE) EXCEPT !.given = given]
    IN  IF "id" \notin given THEN Reject(req, "no_order_id")
        ELSE IF "total" \notin given THEN Reject(req, "no_order_total")
        ELSE IF "client_id" \notin given THEN Reject(req, "no_client_id")
        ELSE Apply(req, completion_plan(history, active, reserved, order_id, order_total, discount_amount))

\* handle_order_cancellation, lines 411-432: order_id and client_id must be
\* there, used_bonus_amount is 0 when absent
OrderCancelWebhook(given, order_id, u) ==
    LET used_bonus_amount == IF "amount" \in given THEN u ELSE 0
        req == [Request("cancel", order_id, NoLead, used_bonus_amount, 0, FALSE) EXCEPT !.given = given]
    IN  IF "id" \notin given THEN Reject(req, "no_order_id")
        ELSE IF "client_id" \notin given THEN Reject(req, "no_client_id")
        ELSE Apply(req, cancellation_plan(history, active, reserved, order_id, used_bonus_amount))

\* handle_order_reservation, lines 298-326: id must be there; without
\* promocode or discount the answer is 200; then client_id must be there
OrderReserveWebhook(given, order_id, order_total, d, promo) ==
    LET discount_amount == IF "amount" \in given THEN d ELSE 0
        products_total == IF "total" \in given THEN order_total ELSE 0
        req == [Request("reserve", order_id, NoLead, discount_amount, products_total, promo) EXCEPT !.given = given]
    IN  IF "id" \notin given THEN Reject(req, "no_order_id")
        ELSE IF promo /\ discount_amount # 0 /\ "client_id" \notin given THEN Reject(req, "no_client_id")
        ELSE Apply(req, reservation_plan(active, reserved, discount_amount, promo))

\* handle_lead_bonus_reservation, lines 655-736: the lead, the contact and
\* the order number must be there, the amount of LD_1035 is 0 when absent
LeadReserveWebhook(given, order_id, requested) ==
    LET reserve_amount == IF "amount" \in given THEN requested ELSE 0
        req == [Request("lead_reserve", order_id, LeadOf(order_id), reserve_amount, ProductsTotal(order_id), FALSE) EXCEPT !.given = given]
    IN  IF "lead_id" \notin given THEN Reject(req, "no_lead_id")
        ELSE IF "client_id" \notin given THEN Reject(req, "no_contact_id")
        ELSE IF "id" \notin given THEN Reject(req, "no_order_id")
        ELSE Apply(req, lead_reservation_plan(history, active, reserved, order_id, F(reserve_amount), F(ProductsTotal(order_id)), discount[order_id]))

\* validate_request of the accrual lambda, lines 192-269
validate_request(given, order_total, bonus_amount, used_bonus) ==
    LET has_bonus_amount == bonus_amount > 0
        has_used_bonus == used_bonus > 0
        expected_bonus == BonusOf(F(order_total))
    IN  /\ {"id", "total", "client_id"} \subseteq given
        /\ has_bonus_amount \/ has_used_bonus
        /\ order_total > 0
        /\ has_bonus_amount => /\ F(bonus_amount) - expected_bonus <= F(1)
                               /\ expected_bonus - F(bonus_amount) <= F(1)

\* handle_bonus_accrual, lines 66-130: the validation, then the operation
\* the amounts of the payload select
LegacyWebhook(given, order_id, order_total, bonus_amount, used_bonus, with_email) ==
    LET has_deduction == used_bonus > 0
        has_accrual == bonus_amount > 0
        operation == IF has_deduction /\ has_accrual THEN "combined"
                     ELSE IF has_deduction THEN "deduct" ELSE "accrue"
        req == [LegacyRequest(operation, order_id, used_bonus, order_total, with_email) EXCEPT !.given = given, !.bonus = bonus_amount]
    IN  IF ~validate_request(given, order_total, bonus_amount, used_bonus)
        THEN Reject(req, "invalid_request")
        ELSE IF operation = "combined"
        THEN LegacyApply(req, combined_plan(history, active, expiry, now, order_id, used_bonus, bonus_amount, with_email))
        ELSE IF operation = "deduct"
        THEN LegacyApply(req, deduction_plan(history, active, expiry, now, order_id, used_bonus, with_email))
        ELSE LegacyApply(req, accrual_plan(history, active, order_id, bonus_amount, with_email))

NextPayload ==
    \/ ops < MaxPayloadOps /\ Next
    \/ \E g \in Givens, o \in OrderIds, d \in CompleteDiscounts : \E t \in PayloadTotals(o) : ops < MaxPayloadOps /\ OrderCompleteWebhook(g, o, t, d)
    \/ \E g \in Givens, o \in OrderIds, u \in PayloadAmounts : ops < MaxPayloadOps /\ OrderCancelWebhook(g, o, u)
    \/ \E g \in Givens, o \in OrderIds, d \in PayloadAmounts, promo \in BOOLEAN : \E t \in PayloadTotals(o) : ops < MaxPayloadOps /\ OrderReserveWebhook(g, o, t, d, promo)
    \/ \E g \in Givens, o \in OrderIds, a \in PayloadAmounts : ops < MaxPayloadOps /\ LeadReserveWebhook(g, o, a)
    \/ \E g \in Givens, o \in OrderIds, b \in PayloadBonuses, u \in PayloadAmounts, e \in BOOLEAN : \E t \in PayloadTotals(o) : ops < MaxPayloadOps /\ LegacyWebhook(g, o, t, b, u, e)

SpecPayload == Init /\ [][NextPayload]_vars

----------------------------------------------------------------------------
(* A customer the CRM does not know yet.  The accrual lambda looks the     *)
(* buyer up by the phone of the request (the duplicate check alone looks   *)
(* by the email) and creates the buyer where its code says so.             *)

MaxNewOps == 3

\* bonusAmount and usedBonusAmount of the requests
NewBonuses == {0, 10}
NewUsed == {0, 30}

\* a plan of the accrual lambda that fails before it reads a balance
LegacyFailure(why) == LegacyPlan(500, why, FALSE, FALSE, 0, 0, 0, 0)

\* handle_bonus_accrual for a request with orderTotal 100: the duplicate
\* check by email, then sync_with_keycrm, sync_bonus_deduction_with_keycrm
\* or process_combined_bonus_operation, which need the phone
LegacyPost(order_id, bonus_amount, used_bonus, with_phone, with_email) ==
    LET has_deduction == used_bonus > 0
        has_accrual == bonus_amount > 0
        operation == IF has_deduction /\ has_accrual THEN "combined"
                     ELSE IF has_deduction THEN "deduct" ELSE "accrue"
        req == [LegacyRequest(operation, order_id, used_bonus, 100, with_email) EXCEPT !.bonus = bonus_amount, !.phone = with_phone]
        found_by_email == with_email /\ buyer
    IN  IF ~(with_phone \/ with_email) \/ ~validate_request(PayloadFields, 100, bonus_amount, used_bonus)
        THEN Reject(req, "invalid_request")
        ELSE IF found_by_email /\ HasOrderToken(history, order_id)
        THEN LegacyRun(req, accrual_plan(history, active, order_id, bonus_amount, TRUE), FALSE)
        ELSE IF ~with_phone
        THEN LegacyRun(req, LegacyFailure("no_phone"), FALSE)
        ELSE IF operation = "combined"
        THEN LegacyRun(req, combined_plan(history, active, expiry, now, order_id, used_bonus, bonus_amount, FALSE), ~buyer)
        ELSE IF operation = "deduct"
        THEN IF buyer
             THEN LegacyRun(req, deduction_plan(history, active, expiry, now, order_id, used_bonus, FALSE), FALSE)
             ELSE LegacyRun(req, LegacyFailure("buyer_not_found"), FALSE)
        ELSE LegacyRun(req, accrual_plan(history, active, order_id, bonus_amount, FALSE), ~buyer)

\* the CRM has no buyer for the customer
InitNewCustomer ==
    /\ buyer = FALSE
    /\ active = 0 /\ reserved = 0 /\ expiry = NoDate /\ history = <<>>
    /\ discount = [o \in OrderIds |-> 0]
    /\ now = 0 /\ ops = 0 /\ wk = <<>>
    /\ last = [req |-> NoRequest, code |-> 0, result |-> "none", wrote |-> FALSE, granted |-> 0, history_updated |-> FALSE, pre_active |-> 0, pre_reserved |-> 0, again |-> FALSE, fault |-> "none", body |-> {}]
    /\ PromoUnused

NextNewCustomer ==
    \/ \E o \in OrderIds, b \in NewBonuses, u \in NewUsed, p \in BOOLEAN, e \in BOOLEAN : ops < MaxNewOps /\ LegacyPost(o, b, u, p, e)
    \/ \E half_days \in {1, 2 * BONUS_EXPIRY_DAYS + 1} : ops < MaxNewOps /\ buyer /\ Tick(half_days)

SpecNewCustomer == InitNewCustomer /\ [][NextNewCustomer]_vars

----------------------------------------------------------------------------
(* The promo-code lambdas.  S3 holds two objects: the lists of the codes   *)
(* ready to be handed out, one list per amount, and the numbers of codes   *)
(* handed out per amount since the last replenishment.  The get lambda     *)
(* takes the first code of a list; the replenish lambda asks the shop's    *)
(* admin panel which codes of an amount are active, creates codes up to    *)
(* the target and replaces the amount's list by the result.  A code is the *)
(* pair <<amount, n>> for "BON<amount><random part>".                      *)

BATCH_THRESHOLD == 20
MIN_CODES_THRESHOLD == 3
TARGET_CODES_PER_AMOUNT == 10

MaxPromoOps == 4

PromoAmounts == {100, 200}
NoCode == <<0, 0>>

\* how many codes an amount's list holds at the start
StockSizes == {0, 1, 4, 5}

\* the counters at the start, <<of 100, of 200>>
UsedAtStart == {<<0, 0>>, <<9, 9>>, <<10, 9>>, <<19, 0>>}

\* the random parts drawn so far are 1..FirstMade
FirstMade == 5

\* sum(used_data.values())
total_used(used_data) == used_data[100] + used_data[200]

\* add_used_code_count: the counters it stores
add_used_code_count(used_data, amount) == [used_data EXCEPT ![amount] = @ + 1]

\* a batch test that would wait for more than the threshold
should_trigger_above(used_data) == total_used(used_data) > BATCH_THRESHOLD

\* add_used_code_count: total_used >= self.batch_threshold
should_trigger(used_data) == total_used(used_data) >= BATCH_THRESHOLD

\* get_and_remove_code_from_s3: remaining_count <= self.min_codes_threshold
should_trigger_low_count(remaining_count) == remaining_count <= MIN_CODES_THRESHOLD

\* a removal that would take the last code of the list
take_last(codes) == [promo_code |-> codes[Len(codes)], rest |-> SubSeq(codes, 1, Len(codes) - 1)]

\* available_for_amount.pop(0): the code and the list it leaves
pop_first(codes) == [promo_code |-> Head(codes), rest |-> Tail(codes)]

\* the codes _generate_single_code_string and create_promo_code add for an
\* amount: k codes with random parts not drawn before
NewCodes(amount, made, k) == [i \in 1..k |-> <<amount, made + i>>]

\* replenish_promo_codes for one amount: the active codes of the panel,
\* filled up to the target
Replenished(active_codes, amount, made) ==
    IF Len(active_codes) >= TARGET_CODES_PER_AMOUNT
    THEN active_codes
    ELSE active_codes \o NewCodes(amount, made, TARGET_CODES_PER_AMOUNT - Len(active_codes))

\* the number of codes replenish_promo_codes creates for the amounts of used
Created(used, amount) ==
    IF used[amount] > 0 /\ Len(panel[amount]) < TARGET_CODES_PER_AMOUNT
    THEN TARGET_CODES_PER_AMOUNT - Len(panel[amount])
    ELSE 0

\* updated_codes of replenish_promo_codes: the lists of the amounts that
\* have a counter; the amounts are worked on one after the other
UpdatedCodes(used, made) ==
    [a \in PromoAmounts |->
        IF used[a] > 0
        THEN Replenished(panel[a], a, IF a = 100 THEN made ELSE made + Created(used, 100))
        ELSE <<>>]

\* update_s3_codes: only the amounts of updated_codes are replaced
update_s3_codes(existing_codes, used, updated_codes) ==
    [a \in PromoAmounts |-> IF used[a] > 0 THEN updated_codes[a] ELSE existing_codes[a]]

\* clear_used_codes_count for every amount that was processed
clear_used_codes_count(used_data, used) ==
    [a \in PromoAmounts |-> IF used[a] > 0 THEN 0 ELSE used_data[a]]

IdleGetter ==
    [pc |-> "idle", amount |-> 0, all_codes |-> <<>>, promo_code |-> NoCode,
     low |-> FALSE, used_data |-> <<>>]

IdleReplenisher(invocations, made) ==
    [pc |-> "idle", pending |-> invocations, made |-> made, used |-> <<>>,
     updated_codes |-> <<>>, existing_codes |-> <<>>]

\* the response of the get lambda, whether it invoked the replenish lambda
\* before answering, and the number of requests answered so far
PromoResponse(status, amount, promo_code, invoked) ==
    [status |-> status, amount |-> amount, promo_code |-> promo_code, invoked |-> invoked,
     n |-> response.n + 1]

\* the get lambda run from its first read to its answer
GetPromoCode(amount) ==
    LET taken == pop_first(available_codes[amount])
        used_data == add_used_code_count(used_codes_count, amount)
        invoke == should_trigger(used_data) \/ should_trigger_low_count(Len(taken.rest))
    IN  /\ ops' = ops + 1
        /\ IF available_codes[amount] = <<>>
           THEN /\ response' = PromoResponse(404, amount, NoCode, FALSE)
                /\ UNCHANGED <<available_codes, used_codes_count, handed, replenisher>>
           ELSE /\ available_codes' = [available_codes EXCEPT ![amount] = taken.rest]
                /\ used_codes_count' = used_data
                /\ handed' = Append(handed, taken.promo_code)
                /\ replenisher' = [replenisher EXCEPT !.pending = @ + (IF invoke THEN 1 ELSE 0)]
                /\ response' = PromoResponse(200, amount, taken.promo_code, invoke)
        /\ UNCHANGED <<store, now, last, wk, buyer, panel, getters>>

\* an invocation of the replenish lambda run from its start to its end
Replenish ==
    LET used == used_codes_count
        updated_codes == UpdatedCodes(used, replenisher.made)
    IN  /\ replenisher.pending > 0
        /\ ops' = ops + 1
        /\ replenisher' = [replenisher EXCEPT !.pending = @ - 1,
                                              !.made = @ + Created(used, 100) + Created(used, 200)]
        /\ panel' = [a \in PromoAmounts |-> IF used[a] > 0 THEN updated_codes[a] ELSE panel[a]]
        /\ available_codes' = update_s3_codes(available_codes, used, updated_codes)
        /\ used_codes_count' = clear_used_codes_count(used_codes_count, used)
        /\ UNCHANGED <<store, now, last, wk, buyer, getters, handed, response>>

\* a customer pays with a code received: the panel no longer lists it as
\* active
UseCode(i) ==
    LET code == handed[i]
        IsOther(c) == c # code
    IN  /\ \E j \in 1..Len(panel[code[1]]) : panel[code[1]][j] = code
        /\ ops' = ops + 1
        /\ panel' = [panel EXCEPT ![code[1]] = SelectSeq(@, IsOther)]
        /\ UNCHANGED <<store, now, last, wk, buyer, available_codes, used_codes_count, getters, replenisher, handed, response>>

\* the lists were filled by a replenishment: every code listed is active
InitPromo ==
    /\ \E n \in StockSizes, m \in StockSizes \ {0} :
          available_codes = (100 :> NewCodes(100, 0, n)) @@ (200 :> NewCodes(200, 0, m))
    /\ panel = available_codes
    /\ \E u \in UsedAtStart : used_codes_count = (100 :> u[1]) @@ (200 :> u[2])
    /\ getters = <<>>
    /\ replenisher = IdleReplenisher(0, FirstMade)
    /\ handed = <<>>
    /\ response = [status |-> 0, amount |-> 0, promo_code |-> NoCode, invoked |-> FALSE, n |-> 0]
    /\ active = 0 /\ reserved = 0 /\ expiry = NoDate /\ history = <<>>
    /\ discount = [o \in OrderIds |-> 0]
    /\ now = 0 /\ ops = 0 /\ wk = <<>> /\ buyer = TRUE
    /\ last = [req |-> NoRequest, code |-> 0, result |-> "none", wrote |-> FALSE, granted |-> 0, history_updated |-> FALSE, pre_active |-> 0, pre_reserved |-> 0, again |-> FALSE, fault |-> "none", body |-> {}]

NextPromo ==
    \/ \E amount \in PromoAmounts : ops < MaxPromoOps /\ GetPromoCode(amount)
    \/ ops < MaxPromoOps /\ Replenish
    \/ \E i \in 1..Len(handed) : ops < MaxPromoOps /\ UseCode(i)

SpecPromo == InitPromo /\ [][NextPromo]_vars

----------------------------------------------------------------------------
(* The promo-code lambdas step by step.  Every get_object and put_object   *)
(* is a step of its own: S3 gives no lock and the lambdas take none, so    *)
(* the retrievals of several invocations and the steps of a replenishment  *)
(* interleave freely.                                                      *)

MaxGetters == 2
MaxConcOps == 3

\* lambda_handler of the get lambda up to the get_object of
\* get_and_remove_code_from_s3; an empty list is answered 404 at once
ReadCodes(g, amount) ==
    /\ getters[g].pc = "idle"
    /\ ops' = ops + 1
    /\ IF available_codes[amount] = <<>>
       THEN /\ response' = PromoResponse(404, amount, NoCode, FALSE)
            /\ UNCHANGED getters
       ELSE /\ getters' = [getters EXCEPT ![g] = [IdleGetter EXCEPT !.pc = "put_codes", !.amount = amount, !.all_codes = available_codes]]
            /\ UNCHANGED response
    /\ UNCHANGED <<store, now, last, wk, buyer, available_codes, used_codes_count, panel, replenisher, handed>>

\* get_and_remove_code_from_s3: pop(0) on the object read and put_object of
\* the whole object
WriteCodes(g) ==
    LET me == getters[g]
        taken == pop_first(me.all_codes[me.amount])
    IN  /\ me.pc = "put_codes"
        /\ available_codes' = [me.all_codes EXCEPT ![me.amount] = taken.rest]
        /\ getters' = [getters EXCEPT ![g] = [me EXCEPT !.pc = "get_used", !.promo_code = taken.promo_code, !.low = should_trigger_low_count(Len(taken.rest)), !.all_codes = <<>>]]
        /\ UNCHANGED <<store, now, last, ops, wk, buyer, used_codes_count, panel, replenisher, handed, response>>

\* add_used_code_count: get_object of the counters
ReadUsed(g) ==
    /\ getters[g].pc = "get_used"
    /\ getters' = [getters EXCEPT ![g].pc = "put_used", ![g].used_data = used_codes_count]
    /\ UNCHANGED <<store, now, last, ops, wk, buyer, available_codes, used_codes_count, panel, replenisher, handed, response>>

\* add_used_code_count: put_object of the counters; then lambda_handler
\* invokes the replenish lambda if it has to and answers with the code
WriteUsed(g) ==
    LET me == getters[g]
        used_data == add_used_code_count(me.used_data, me.amount)
        invoke == should_trigger(used_data) \/ me.low
    IN  /\ me.pc = "put_used"
        /\ used_codes_count' = used_data
        /\ replenisher' = [replenisher EXCEPT !.pending = @ + (IF invoke THEN 1 ELSE 0)]
        /\ handed' = Append(handed, me.promo_code)
        /\ response' = PromoResponse(200, me.amount, me.promo_code, invoke)
        /\ getters' = [getters EXCEPT ![g] = IdleGetter]
        /\ UNCHANGED <<store, now, last, ops, wk, buyer, available_codes, panel>>

\* lambda_handler of the replenish lambda: get_used_codes_count; with no
\* counter there is nothing to do
ReplenishStart ==
    /\ replenisher.pc = "idle"
    /\ replenisher.pending > 0
    /\ replenisher' = IF total_used(used_codes_count) = 0
                      THEN [replenisher EXCEPT !.pending = @ - 1]
                      ELSE [replenisher EXCEPT !.pc = "browse", !.used = used_codes_count]
    /\ UNCHANGED <<store, now, last, ops, wk, buyer, available_codes, used_codes_count, panel, getters, handed, response>>

\* replenish_promo_codes: the browser reads the active codes of the panel
\* and creates the missing ones
ReplenishBrowse ==
    LET used == replenisher.used
        updated_codes == UpdatedCodes(used, replenisher.made)
    IN  /\ replenisher.pc = "browse"
        /\ panel' = [a \in PromoAmounts |-> IF used[a] > 0 THEN updated_codes[a] ELSE panel[a]]
        /\ replenisher' = [replenisher EXCEPT !.pc = "get_codes", !.updated_codes = updated_codes,
                                              !.made = @ + Created(used, 100) + Created(used, 200)]
        /\ UNCHANGED <<store, now, last, ops, wk, buyer, available_codes, used_codes_count, getters, handed, response>>

\* update_s3_codes: get_object of the lists
ReplenishReadCodes ==
    /\ replenisher.pc = "get_codes"
    /\ replenisher' = [replenisher EXCEPT !.pc = "put_codes", !.existing_codes = available_codes]
    /\ UNCHANGED <<store, now, last, ops, wk, buyer, available_codes, used_codes_count, panel, getters, handed, response>>

\* update_s3_codes: put_object of the lists
ReplenishWriteCodes ==
    /\ replenisher.pc = "put_codes"
    /\ available_codes' = update_s3_codes(replenisher.existing_codes, replenisher.used, replenisher.updated_codes)
    /\ replenisher' = [replenisher EXCEPT !.pc = "clear", !.existing_codes = <<>>, !.updated_codes = <<>>]
    /\ UNCHANGED <<store, now, last, ops, wk, buyer, used_codes_count, panel, getters, handed, response>>

\* lambda_handler of the replenish lambda: clear_used_codes_count for the
\* amounts processed
ReplenishClear ==
    /\ replenisher.pc = "clear"
    /\ used_codes_count' = clear_used_codes_count(used_codes_count, replenisher.used)
    /\ replenisher' = IdleReplenisher(replenisher.pending - 1, replenisher.made)
    /\ UNCHANGED <<store, now, last, ops, wk, buyer, available_codes, panel, getters, handed, response>>

InitPromoConc ==
    /\ \E n \in {1, 4}, m \in {1} :
          available_codes = (100 :> NewCodes(100, 0, n)) @@ (200 :> NewCodes(200, 0, m))
    /\ panel = available_codes
    /\ \E u \in {<<0, 0>>, <<19, 0>>} : used_codes_count = (100 :> u[1]) @@ (200 :> u[2])
    /\ getters = [g \in 1..MaxGetters |-> IdleGetter]
    /\ replenisher = IdleReplenisher(0, FirstMade)
    /\ handed = <<>>
    /\ response = [status |-> 0, amount |-> 0, promo_code |-> NoCode, invoked |-> FALSE, n |-> 0]
    /\ active = 0 /\ reserved = 0 /\ expiry = NoDate /\ history = <<>>
    /\ discount = [o \in OrderIds |-> 0]
    /\ now = 0 /\ ops = 0 /\ wk = <<>> /\ buyer = TRUE
    /\ last = [req |-> NoRequest, code |-> 0, result |-> "none", wrote |-> FALSE, granted |-> 0, history_updated |-> FALSE, pre_active |-> 0, pre_reserved |-> 0, again |-> FALSE, fault |-> "none", body |-> {}]

NextPromoConc ==
    \/ \E g \in 1..MaxGetters, amount \in PromoAmounts : ops < MaxConcOps /\ ReadCodes(g, amount)
    \/ \E g \in 1..MaxGetters : WriteCodes(g)
    \/ \E g \in 1..MaxGetters : ReadUsed(g)
    \/ \E g \in 1..MaxGetters : WriteUsed(g)
    \/ ReplenishStart
    \/ ReplenishBrowse
    \/ ReplenishReadCodes
    \/ ReplenishWriteCodes
    \/ ReplenishClear
    \/ \E i \in 1..Len(handed) : ops < MaxConcOps /\ UseCode(i)

SpecPromoConc == InitPromoConc /\ [][NextPromoConc]_vars

----------------------------------------------------------------------------
(* Readings of the stored history used by the properties *)

\* the indices of the lines of one kind written for exactly this order
LinesOf(h, order_id, kinds) ==
    {i \in 1..Len(h) : h[i].order = order_id /\ h[i].kind \in kinds}

RECURSIVE SumAmounts(_, _)
SumAmounts(h, idx) ==
    IF idx = {} THEN 0
    ELSE LET i == CHOOSE j \in idx : TRUE
         IN  h[i].amt + SumAmounts(h, idx \ {i})

\* the reserve and manual reserve amounts recorded for exactly this order
RecordedReserve(h, order_id) == SumAmounts(h, LinesOf(h, order_id, ReserveKinds))

----------------------------------------------------------------------------
(* C1: in every reachable state the stored active and reserved balances    *)
(* are both >= 0, whatever payloads the handlers accepted.                 *)
C1_BalancesNonNegative == active >= 0 /\ reserved >= 0

(* C2: for every order, the reserve and manual reserve amounts recorded in *)
(* the history for that order never exceed 50% of the order total.         *)
C2_ReservedWithinCap ==
    \A o \in OrderIds : 2 * RecordedReserve(history, o) <= ProductsTotal(o)

(* C3: the order-complete event delivered a second time, right after the   *)
(* first delivery, returns success and changes neither the balances nor    *)
(* the history (one completed line stays).                                 *)
C3_CompleteReplayNoOp ==
    [][(last'.req.op = "complete" /\ last'.again)
        => (last'.code = 200 /\ active' = active /\ reserved' = reserved /\ history' = history)]_vars

(* C4: the order-reserve event delivered again after a delivery that       *)
(* reserved a positive amount returns success and changes neither the      *)
(* balances nor the history.                                               *)
C4_ReserveReplayNoOp ==
    [][(last'.req.op = "reserve" /\ last'.again)
        => (last'.code = 200 /\ active' = active /\ reserved' = reserved /\ history' = history)]_vars

(* C5: the manual reserve event delivered again after it was applied       *)
(* returns a success response and changes neither the balances nor the     *)
(* history, whatever the order's recorded discount is by then.             *)
C5_LeadReplayNoOp ==
    [][(last'.req.op = "lead_reserve" /\ last'.again)
        => (last'.code = 200 /\ active' = active /\ reserved' = reserved /\ history' = history)]_vars

(* C6: a reserve that wrote, followed at once by the cancel of the same    *)
(* order, restores the active and reserved balances the account had before *)
(* the reserve.                                                            *)
C6_CancelUndoesReserve ==
    [][(last.req.op = "reserve" /\ last.wrote /\ last'.req.op = "cancel" /\ last'.req.order = last.req.order)
        => (active' = last.pre_active /\ reserved' = last.pre_reserved)]_vars

(* C7: however often one logical event (a reserve, a manual reserve or a   *)
(* completion of one order) is delivered, and however the deliveries'      *)
(* reads and writes overlap, at most one of the deliveries writes the      *)
(* event's balance change to the account: a delivery that reads balances   *)
(* which already hold the event's change does not write it again.          *)
C7_DeltaAtMostOnce ==
    \A w \in Workers :
        (wk[w].req.op \in {"reserve", "lead_reserve", "complete"} /\ wk[w].after)
        => ~ wk[w].wrote

(* C8 as stated: balances and ledger change in one write, so in every      *)
(* stored state a delivery's balances are written exactly when its ledger  *)
(* line is.                                                                *)
C8_OneWrite ==
    \A w \in Workers : wk[w].wrote <=> wk[w].logged

(* C8: a delivery's balances (active, reserved, expiry) are stored by one  *)
(* write and its ledger line by a separate write of the history alone,     *)
(* made after the balance write: no step changes the history together with *)
(* a balance, and no delivery has its ledger line written before its       *)
(* balances.                                                               *)
C8_BalancesThenLedger ==
    [][/\ history' # history
            => (active' = active /\ reserved' = reserved /\ expiry' = expiry)
       /\ \A w \in Workers : wk'[w].logged => wk'[w].wrote]_vars

\* a delivery has finished with both of its writes made
C8_BothWritten ==
    \E w \in Workers : wk[w].pc = "done" /\ wk[w].wrote /\ wk[w].logged

(* C9: once a complete or a cancel has released the recorded reservation   *)
(* of an order (lowering the reserved balance), a complete or cancel       *)
(* delivered next for the same order does not lower the reserved balance   *)
(* again, and such a cancel does not raise the active balance.             *)
C9_EndStatesTerminal ==
    [][(/\ last.req.op \in {"complete", "cancel"}
        /\ last.wrote
        /\ last.pre_reserved > reserved
        /\ LinesOf(history, last.req.order, ReserveKinds) # {}
        /\ ops' = ops + 1
        /\ last'.req.op \in {"complete", "cancel"}
        /\ last'.req.order = last.req.order)
        => (reserved' >= reserved /\ (last'.req.op = "cancel" => active' <= active))]_vars

(* C10: the history holds, for each order, at most one automatic reserve   *)
(* line, at most one completed line and at most one cancelled line.        *)
C10_OneLinePerKind ==
    \A o \in OrderIds : \A k \in {"reserved", "completed", "cancelled"} :
        Cardinality(LinesOf(history, o, {k})) <= 1

----------------------------------------------------------------------------
(* Claims about the expiry check.  A step handles a request when it counts *)
(* an operation and leaves the clock alone.                                *)

Handles(operations) ==
    ops' = ops + 1 /\ now' = now /\ last'.req.op \in operations

\* the stored balance is positive and its expiry date lies in the past
StoredExpired == check_bonus_expiry(active, expiry, now).expired

\* the accrual lambda treats the request being handled as a duplicate and
\* stops before the expiry check
StopsAsDuplicate ==
    last'.req.op \in {"deduct", "combined"} /\ last'.req.email /\ HasOrderToken(history, last'.req.order)

\* the step runs check_bonus_expiry
RunsExpiryCheck ==
    Handles({"deduct", "combined", "check_expiry"}) /\ ~ StopsAsDuplicate

(* C11: no request that reserves or deducts points (order reserve, manual  *)
(* reserve, deduction, deduction with accrual) takes them from an active   *)
(* balance whose expiry date lies in the past: such a request writes       *)
(* balances only by zeroing the expired balance.                           *)
C11_NoRedemptionFromExpired ==
    [][(/\ Handles({"reserve", "lead_reserve", "deduct", "combined"})
        /\ StoredExpired
        /\ last'.wrote)
        => (last'.result = "bonuses_expired" /\ active' = 0)]_vars

(* C12: when the expiry check runs on a positive active balance whose      *)
(* expiry date is earlier than now, it stores active = 0, adds one line    *)
(* "EXPIRED" showing the whole previous balance removed, reports expired   *)
(* with expired_amount = the previous balance, and a deduction that        *)
(* triggered it is refused with no other change of the balances.           *)
C12_SweepZeroesAndRefuses ==
    [][(RunsExpiryCheck /\ StoredExpired)
        => (/\ active' = 0
            /\ reserved' = reserved
            /\ Len(history') > 0
            /\ Head(history') = LegacyLine(ExpiredId, 0, active, active, 0, 0)
            /\ \A i \in 2..Len(history') : history'[i] = history[i - 1]
            /\ last'.result \in {"expired", "bonuses_expired"}
            /\ last'.granted = active
            /\ last'.req.op \in {"deduct", "combined"} => last'.code # 200)]_vars

\* a deduction met an expired balance of 100 and was refused
C12_DeductionRefused ==
    /\ last.req.op = "deduct"
    /\ last.result = "bonuses_expired"
    /\ last.granted = 100
    /\ active = 0
    /\ Len(history) > 0 /\ history[1].order = ExpiredId

(* C13: the expiry check writes nothing when the active balance is <= 0,   *)
(* when there is no expiry date, or when now is not later than the expiry  *)
(* date: GET /check-expiry leaves balances, date and history as they were, *)
(* and a deduction is not refused as expired and logs no "EXPIRED" line.   *)
C13_SweepNoOp ==
    [][(RunsExpiryCheck /\ (active <= 0 \/ expiry = NoDate \/ now <= 2 * expiry))
        => (/\ last'.result \notin {"expired", "bonuses_expired"}
            /\ last'.req.op = "check_expiry" => UNCHANGED store
            /\ history' # history => Head(history').order # ExpiredId)]_vars

\* the check ran at 00:00 of the expiry date of a positive balance
C13_CheckedOnExpiryDate ==
    /\ last.req.op = "check_expiry"
    /\ last.result = "not_expired"
    /\ active > 0
    /\ expiry # NoDate
    /\ now = 2 * expiry

(* C14: a step on which the expiry check runs, whether it zeroes the       *)
(* active balance or not, leaves the reserved balance as it was.           *)
C14_SweepKeepsReserved ==
    [][RunsExpiryCheck => reserved' = reserved]_vars

\* an expired balance was zeroed while points were reserved
C14_SweptWithReserve ==
    /\ last.result \in {"expired", "bonuses_expired"}
    /\ last.wrote
    /\ active = 0
    /\ reserved > 0

(* C15: every request that writes the balances stores as expiry date the   *)
(* date of the write plus 90 days, whatever date was stored before.        *)
C15_ExpiryRecomputed ==
    [][(ops' = ops + 1 /\ now' = now /\ last'.wrote)
        => expiry' = Today + BONUS_EXPIRY_DAYS]_vars

\* a write on a later day has replaced the date stored before
C15_DateReplaced ==
    /\ last.wrote
    /\ Today > 0
    /\ expiry = Today + BONUS_EXPIRY_DAYS

----------------------------------------------------------------------------
(* Claims about what reserve, complete and cancel compute.                 *)

(* C16: a manual reservation for an order that has no manual reserve line  *)
(* yet, with cap = 50% of the order total and already_reserved = the       *)
(* reserve amounts the history records for the order: if cap -             *)
(* already_reserved <= 0 the answer is 400 and nothing is written,         *)
(* otherwise the granted amount is min(requested, cap - already_reserved,  *)
(* active balance).  Stated for histories in which no other order's line   *)
(* carries this order's token, so that the total the code reads is the     *)
(* order's own.                                                            *)
C16_ManualGrant ==
    [][(/\ Handles({"lead_reserve"})
        /\ LinesOf(history, last'.req.order, {"manual_reserve"}) = {}
        /\ find_reserved_amount_for_order(history, last'.req.order).total
              = F(RecordedReserve(history, last'.req.order)))
        => LET cap == Half(F(last'.req.total))
               already_reserved == F(RecordedReserve(history, last'.req.order))
               headroom == cap - already_reserved
           IN  IF headroom <= 0
               THEN last'.code = 400 /\ UNCHANGED store
               ELSE last'.granted = Min(Min(F(last'.req.amount), headroom), F(active))]_vars

(* C17: a reservation, automatic or manual, that grants g > 0 lowers the   *)
(* active balance by exactly g, raises the reserved balance by exactly g,  *)
(* leaves active + reserved unchanged, and adds as the newest line of the  *)
(* history exactly one reserve or manual reserve line for the order, with  *)
(* amount g.                                                               *)
C17_ReserveMovesGrant ==
    [][(/\ Handles({"reserve", "lead_reserve"})
        /\ last'.wrote
        /\ last'.granted > 0)
        => /\ F(active') = F(active) - last'.granted
           /\ F(reserved') = F(reserved) + last'.granted
           /\ active' + reserved' = active + reserved
           /\ Len(history') > 0
           /\ Head(history').order = last'.req.order
           /\ Head(history').kind \in ReserveKinds
           /\ F(Head(history').amt) = last'.granted
           /\ \A i \in 2..Len(history') : history'[i] = history[i - 1]]_vars

C19_ReleaseFromLedger ==
    [][(Handles({"complete"}) /\ last'.code = 200)
        => last'.granted =
              IF LinesOf(history, last'.req.order, ReserveKinds) # {}
              THEN F(RecordedReserve(history, last'.req.order))
              ELSE F(last'.req.amount)]_vars

(* C20: cancel for an order moves exactly return_amount =                  *)
(* min(reserved_for_order, reserved balance) from reserved to active,      *)
(* where reserved_for_order is the total of the reserve lines the history  *)
(* holds for the order or, if it holds none, the amount the caller sent;   *)
(* active + reserved is unchanged, nothing is accrued and no accrual is    *)
(* written to the history.                                                 *)
C20_CancelReturnsReserve ==
    [][(Handles({"cancel"}) /\ last'.code = 200)
        => LET reserved_for_order ==
                   IF LinesOf(history, last'.req.order, ReserveKinds) # {}
                   THEN F(RecordedReserve(history, last'.req.order))
                   ELSE F(last'.req.amount)
               return_amount == Min(reserved_for_order, F(reserved))
           IN  /\ F(active') = F(active) + return_amount
               /\ F(reserved') = F(reserved) - return_amount
               /\ active' + reserved' = active + reserved
               /\ history' # history =>
                      (Head(history').kind # "completed" /\ Head(history').acc = 0)]_vars

----------------------------------------------------------------------------
(* Claims about the history text.                                          *)

(* C21: find_reserved_amount_for_order returns the sum of the amounts of   *)
(* exactly the reserve and manual reserve lines of the order asked for,    *)
(* counting no line of another order (such as one whose number starts with *)
(* the same digits), and returns "not found" exactly when the history has  *)
(* no such line.                                                           *)
C21_FindExact ==
    \A o \in OrderIds :
        LET found == find_reserved_amount_for_order(history, o)
        IN  /\ found.found = (LinesOf(history, o, ReserveKinds) # {})
            /\ found.found => found.total = F(RecordedReserve(history, o))

\* the handlers of bonus_operations.py, which write the history through
\* log_transaction, and those of the accrual lambda
CurrentWriter == {"reserve", "lead_reserve", "complete", "cancel"}
LegacyWriter == {"accrue", "deduct", "combined", "check_expiry"}

\* a handler of one of these operations has stored a new history text
WritesHistory(operations) == Handles(operations) /\ last'.history_updated

\* the entries the writer of this step had to store, newest first
Ledger == <<Head(history')>> \o history

\* lines is some of the newest entries followed by the line "..."
IsMarkedPrefix(lines, entries) ==
    \E k \in 0..Len(entries) : lines = Take(entries, k) \o <<Marker>>

(* C22: reading back the text written for a list of entries gives that     *)
(* list when it is within the entry-count and length bounds; for a list    *)
(* exceeding a bound it gives some of its newest entries followed by the   *)
(* truncation marker.                                                      *)
C22_RoundTrip ==
    [][WritesHistory(CurrentWriter)
        => IF /\ Len(Ledger) <= MAX_HISTORY_RECORDS
              /\ TextLength(JoinParagraphs(Ledger)) <= MAX_HISTORY_LENGTH
           THEN SplitLines(new_history(Ledger)) = Ledger
           ELSE IsMarkedPrefix(SplitLines(new_history(Ledger)), Ledger)]_vars

(* C23: after every history write of the current writer the stored history *)
(* has at most MAX_HISTORY_RECORDS entries and its text is at most         *)
(* MAX_HISTORY_LENGTH characters long.                                     *)
C23_HistoryBounded ==
    [][WritesHistory(CurrentWriter)
        => /\ Len(history') <= MAX_HISTORY_RECORDS
           /\ TextLength(JoinParagraphs(history')) <= MAX_HISTORY_LENGTH]_vars

(* C24: whenever a history write of either writer drops entries, the new   *)
(* entry is first, the entries dropped are the oldest, the entries kept    *)
(* keep their order, and the stored text ends with the marker "...".       *)
C24_DropsOldestAndMarks ==
    [][(WritesHistory(CurrentWriter \cup LegacyWriter) /\ history' # Ledger)
        => IsMarkedPrefix(history', Ledger)]_vars

----------------------------------------------------------------------------
(* Claims about responses and failures.                                    *)

\* the amount_correction block of the manual reserve response (lines
\* 938-942) of the request handled by this step
AmountCorrection ==
    LET plan == lead_reservation_plan(history, active, reserved, last'.req.order,
                    F(last'.req.amount), F(last'.req.total), discount[last'.req.order])
    IN  [requested |-> F(last'.req.amount), actual |-> plan.used,
         was_corrected |-> plan.corrected]

(* C25: in every successful manual reserve response amount_correction      *)
(* reports the amount requested and the amount granted, and was_corrected  *)
(* is true whenever the granted amount is smaller than the requested one   *)
(* (clamped by the cap or by the active balance) and false when they are   *)
(* equal.                                                                  *)
C25_CorrectionReported ==
    [][(Handles({"lead_reserve"}) /\ last'.result = "manual_reserve")
        => /\ AmountCorrection.requested = F(last'.req.amount)
           /\ AmountCorrection.actual = last'.granted
           /\ AmountCorrection.was_corrected
                = (AmountCorrection.actual < AmountCorrection.requested)]_vars

(* C26: when two distinct operations on the account overlap, both reading  *)
(* the balances before either writes them, the balances stored in the end  *)
(* are those computed by the operation whose write comes last, the other   *)
(* operation's change of the balances is lost, and both report success.    *)
C26_LastWriteWins ==
    [][\A w \in Workers, v \in Workers :
          (/\ wk[w].pc = "put_buyer" /\ wk'[w].wrote
           /\ wk[w].stale
           /\ wk[v].wrote /\ wk[v].req # wk[w].req /\ wk[v].read = wk[w].read)
          => /\ <<active', reserved'>> = <<wk[w].plan.new_bonus, wk[w].plan.new_reserved>>
             /\ wk[w].plan.code = 200 /\ wk[v].plan.code = 200]_vars

\* a reserve and a manual reserve that both read 100/0 have both written:
\* the balances hold one reservation only
C26_ReservationLost ==
    \E w \in Workers, v \in Workers :
        /\ wk[w].wrote /\ wk[w].stale /\ wk[v].wrote
        /\ wk[w].req # wk[v].req
        /\ wk[w].read = wk[v].read
        /\ wk[v].plan.new_reserved > wk[v].read[2]
        /\ wk[w].pc = "done" /\ wk[v].pc = "done"
        /\ <<active, reserved>> = <<wk[w].plan.new_bonus, wk[w].plan.new_reserved>>
        /\ active + reserved = wk[w].read[1] + wk[w].read[2]
        /\ reserved < (wk[w].plan.new_reserved - wk[w].read[2]) + (wk[v].plan.new_reserved - wk[v].read[2])

(* C27: if an operation's balance write succeeds and the separate write of *)
(* its history line fails, the operation reports success for the balance   *)
(* change together with a history_updated flag that is false, and the new  *)
(* balances stay stored.                                                   *)
C27_LedgerFailureFlagged ==
    [][(ops' = ops + 1 /\ now' = now /\ last'.fault = "put_history")
        => /\ last'.code = 200
           /\ LET plan == PlanOf(last'.req, history, active, reserved, discount[last'.req.order])
              IN  <<active', reserved'>> = <<plan.new_bonus, plan.new_reserved>>
           /\ "history_updated" \in last'.body
           /\ ~last'.history_updated]_vars

\* the reads of the buyer record and the write of its balances
AccountRequests == {"get_buyer", "get_history", "put_buyer"}

(* C28: if the record store fails on the read of the account or on the     *)
(* write of the balances of a reserve, a manual reserve, a completion or a *)
(* cancellation, the handler answers 500, writes no history line, and the  *)
(* stored balances and history are what they were before the request.      *)
C28_StoreFailureAborts ==
    [][(ops' = ops + 1 /\ now' = now /\ last'.fault \in AccountRequests)
        => /\ last'.code = 500
           /\ ~last'.wrote /\ ~last'.history_updated
           /\ UNCHANGED <<active, reserved, expiry, history>>]_vars

\* the fields each endpoint requires
RequiredFields(operation) ==
    CASE operation = "complete" -> {"id", "client_id", "total"}
      [] operation = "cancel" -> {"id", "client_id", "amount"}
      [] operation = "reserve" -> {"id", "client_id", "total", "amount"}
      [] operation = "lead_reserve" -> {"lead_id", "client_id", "id", "amount"}
      [] OTHER -> {"id", "client_id", "total"}

\* a request lacking a required field, or whose amount or order total is
\* zero or negative
IsInvalid(req) ==
    \/ ~(RequiredFields(req.op) \subseteq req.given)
    \/ req.op \in {"cancel", "reserve", "lead_reserve"} /\ req.amount <= 0
    \/ req.op \in {"complete", "reserve", "lead_reserve", "accrue", "deduct", "combined"} /\ req.total <= 0
    \/ req.op \in {"accrue", "deduct", "combined"} /\ req.amount <= 0 /\ req.bonus <= 0

(* C29: a request of order-complete, order-cancel, order-reserve,          *)
(* lead-reserve or the accrual endpoint that lacks a required field, or    *)
(* whose amount or order total is zero or negative, is answered 400 and    *)
(* changes neither the balances nor the history.                           *)
C29_InvalidRejected ==
    [][(Handles(CurrentWriter \cup {"accrue", "deduct", "combined"}) /\ IsInvalid(last'.req))
        => /\ last'.code = 400
           /\ UNCHANGED <<active, reserved, expiry, history>>]_vars

\* a line of the accrual endpoint for this very order is in the history
AlreadyApplied(order_id) ==
    \E i \in 1..Len(history) : history[i].kind = "bonus" /\ history[i].order = order_id

(* C30: a request to the accrual endpoint whose orderId has already been   *)
(* applied to the account is answered 200 with duplicate = true and writes *)
(* neither the balance nor the history, whether the request names the      *)
(* customer by phone or by email.                                          *)
C30_DuplicateSkipped ==
    [][(Handles({"accrue", "deduct", "combined"}) /\ AlreadyApplied(last'.req.order))
        => /\ last'.code = 200
           /\ "duplicate" \in last'.body
           /\ UNCHANGED <<active, reserved, expiry, history>>]_vars

\* no line of the history is a line of this order
NotInLedger(order_id) ==
    \A i \in 1..Len(history) : history[i].order # order_id

(* C31: an accrual of b points by the accrual endpoint for an order that   *)
(* has no line in the history raises the active balance by exactly b and   *)
(* adds, as newest line, one line of the order showing +b accrued, -0 used *)
(* and the balance going from the old one to the old one plus b.           *)
C31_AccrualCreditsAndLogs ==
    [][(Handles({"accrue"}) /\ NotInLedger(last'.req.order))
        => /\ active' = active + last'.req.bonus
           /\ history' = <<LegacyLine(last'.req.order, last'.req.bonus, 0, active, active + last'.req.bonus, last'.req.total)>> \o history]_vars

\* a deduction or a combined operation asks for more than the stored balance
AsksTooMuch == Handles({"deduct", "combined"}) /\ last'.req.amount > active

(* C32: a deduction, or a combined deduction and accrual, of the accrual   *)
(* endpoint whose used amount exceeds the stored active balance deducts    *)
(* nothing: it is answered with an error, or as a duplicate when the check *)
(* by email finds the order in the history, and it leaves the balances and *)
(* the history as they were, except that a positive balance whose expiry   *)
(* date has passed is first set to 0 by the expiry check, which adds its   *)
(* "EXPIRED" line.                                                         *)
C32_InsufficientRefused ==
    [][AsksTooMuch
        => /\ last'.code = 500 \/ last'.result = "duplicate"
           /\ reserved' = reserved
           /\ IF StoredExpired /\ last'.result # "duplicate"
              THEN /\ active' = 0
                   /\ history' = <<LegacyLine(ExpiredId, 0, active, active, 0, 0)>> \o history
              ELSE UNCHANGED <<active, expiry, history>>]_vars

\* a deduction of 30 from a balance of 0 was refused
C32_RefusedForBalance ==
    /\ last.req.op \in {"deduct", "combined"}
    /\ last.result = "insufficient"
    /\ last.req.amount > last.pre_active
    /\ active = last.pre_active

\* C32 as stated: an error, and nothing written
C32_InsufficientWritesNothing ==
    [][AsksTooMuch
        => /\ last'.code # 200
           /\ UNCHANGED <<active, reserved, expiry, history>>]_vars

\* the get-promo-code lambda has answered a request in this step
Answers == response'.n # response.n

(* C33: a retrieval for an amount whose stored list is not empty is        *)
(* answered 200 with the first code of that list, removes that one code    *)
(* from the list and leaves the lists of the other amounts as they were; a *)
(* retrieval for an amount whose list is empty is answered 404 and leaves  *)
(* the stored lists and the usage counters as they were.                   *)
C33_RetrievalTakesFirst ==
    [][Answers
        => IF available_codes[response'.amount] # <<>>
           THEN /\ response'.status = 200
                /\ response'.promo_code = Head(available_codes[response'.amount])
                /\ available_codes'[response'.amount] = Tail(available_codes[response'.amount])
                /\ \A a \in PromoAmounts \ {response'.amount} : available_codes'[a] = available_codes[a]
           ELSE /\ response'.status = 404
                /\ UNCHANGED <<available_codes, used_codes_count>>]_vars

\* the last code of an amount was handed out and the next request for the
\* amount was answered 404
C33_RanOut ==
    /\ response.status = 404
    /\ \E i \in 1..Len(handed) : handed[i][1] = response.amount
    /\ available_codes[response.amount] = <<>>

(* C34: a successful retrieval invokes the replenish lambda exactly when,  *)
(* after it, the usage counters of all amounts add up to BATCH_THRESHOLD   *)
(* or more, or the list of the requested amount holds MIN_CODES_THRESHOLD  *)
(* codes or fewer; it invokes it once, and a retrieval answered 404        *)
(* invokes nothing.                                                        *)
C34_ReplenishTriggered ==
    [][Answers
        => /\ response'.status = 200
              => (response'.invoked <=> \/ total_used(used_codes_count') >= BATCH_THRESHOLD
                                        \/ Len(available_codes'[response'.amount]) <= MIN_CODES_THRESHOLD)
           /\ response'.status # 200 => ~response'.invoked
           /\ replenisher'.pending = replenisher.pending + (IF response'.invoked THEN 1 ELSE 0)]_vars

\* the batch threshold alone invoked the replenishment: the list of the
\* amount still holds more than MIN_CODES_THRESHOLD codes
C34_BatchReached ==
    /\ response.status = 200
    /\ response.invoked
    /\ replenisher.pending = 1
    /\ total_used(used_codes_count) = BATCH_THRESHOLD
    /\ Len(available_codes[response.amount]) > MIN_CODES_THRESHOLD

\* a reserve webhook or a manual reserve that can be granted nothing: the
\* order has no discount, or the account has no active bonuses
NothingToGrant ==
    /\ Handles({"reserve", "lead_reserve"})
    /\ active <= 0 \/ (last'.req.op = "reserve" /\ last'.req.amount = 0)

(* C35: a reserve webhook or a manual reserve that is not rejected and     *)
(* whose grant is <= 0, because the order has no discount or the active    *)
(* balance is 0, is answered with success and writes nothing: the active   *)
(* and reserved balances, the expiry date and the history stay as they     *)
(* were.                                                                   *)
C35_NothingReserved ==
    [][(NothingToGrant /\ last'.code # 400)
        => /\ last'.code = 200
           /\ ~last'.wrote /\ ~last'.history_updated
           /\ UNCHANGED <<active, reserved, expiry, history>>]_vars

\* a reserve webhook with a discount met an account without bonuses
C35_NoBonusesToReserve ==
    /\ last.req.op = "reserve"
    /\ last.req.promo /\ last.req.amount > 0
    /\ last.pre_active = 0
    /\ last.result = "nothing_to_reserve"
    /\ last.code = 200

\* the orders that have a reserve or manual reserve line and neither a
\* completed nor a cancelled line
OpenOrders(h) ==
    {o \in OrderIds : LinesOf(h, o, ReserveKinds) # {} /\ LinesOf(h, o, {"completed", "cancelled"}) = {}}

RECURSIVE OpenReserve(_, _)
OpenReserve(h, orders) ==
    IF orders = {} THEN 0
    ELSE LET o == CHOOSE x \in orders : TRUE
         IN  RecordedReserve(h, o) + OpenReserve(h, orders \ {o})

(* C36: when reserve, manual reserve, complete and cancel requests are     *)
(* handled one after the other, every store call succeeds and the history  *)
(* is not truncated, the stored reserved balance equals the sum of the     *)
(* reserve and manual reserve amounts of the history over the orders that  *)
(* have such a line and neither a completed nor a cancelled line.          *)
C36_ReservedMatchesLedger ==
    reserved = OpenReserve(history, OpenOrders(history))

(* C37: an accrual of the accrual endpoint for a customer who has no       *)
(* account creates the account and credits it: afterwards the account      *)
(* exists, its active balance is the accrued amount, its reserved balance  *)
(* is 0 and its history holds one line, the line of the accrual; a         *)
(* deduction for a customer who has no account fails and creates no        *)
(* account.                                                                *)
C37_FirstContact ==
    [][(Handles({"accrue", "deduct"}) /\ ~buyer /\ last'.code # 400)
        => IF last'.req.op = "accrue"
           THEN /\ buyer'
                /\ active' = last'.req.bonus
                /\ reserved' = 0
                /\ history' = <<LegacyLine(last'.req.order, last'.req.bonus, 0, 0, last'.req.bonus, last'.req.total)>>
           ELSE /\ last'.code # 200
                /\ ~buyer'
                /\ UNCHANGED <<active, reserved, expiry, history>>]_vars

(* C38: no promo code is handed out twice: whatever the interleaving of    *)
(* the retrievals with each other and with a replenishment that rewrites   *)
(* the lists, no code is in the answers of two retrievals.                 *)
C38_NoCodeTwice ==
    \A i, j \in 1..Len(handed) : i # j => handed[i] # handed[j]

(* C39: the discount_amount a manual reservation writes into the order is  *)
(* the discount the order had before plus the amount granted, and it is    *)
(* never more than 50% of the order's products_total.                      *)
C39_ManualDiscountWithinHalf ==
    [][(Handles({"lead_reserve"}) /\ last'.result = "manual_reserve")
        => /\ discount'[last'.req.order] = discount[last'.req.order] + last'.granted
           /\ 2 * discount'[last'.req.order] <= F(last'.req.total)
           /\ \A o \in OrderIds \ {last'.req.order} : discount'[o] = discount[o]]_vars

\* a manual reservation has added its grant to a discount the order had
C39_AddedToDiscount ==
    /\ last.req.op = "lead_reserve"
    /\ last.result = "manual_reserve"
    /\ last.granted > 0
    /\ discount[last.req.order] > last.granted

====
